---------------------------- MODULE Spec2Model ----------------------------
(***************************************************************************)
(* A model of the lyric visualizer pipeline:                               *)
(*   - SongAnalysisStorage (song_analysis_storage.py): the lock-protected  *)
(*     store bridging the analysis task and the lyric handler;             *)
(*   - LLMAnalysis._process_stream / parse_section (llm_analysis.py): the  *)
(*     streaming parser of the model's reply;                              *)
(*   - the song-title monitor and the lyric handler (main.py).             *)
(*                                                                         *)
(* Text is a sequence of one-character strings, so that normalisation,     *)
(* stripping, splitting and prefix tests are computed character by         *)
(* character as the Python code computes them.  Python's None is the       *)
(* value None below, which is no text (its element is not a character).    *)
(***************************************************************************)
EXTENDS Integers, Sequences, FiniteSets, TLC

VARIABLES
    \* SongAnalysisStorage
    song_data,              \* self.song_data: title -> (normalized lyric -> sentence)
    current_song_title,     \* self.current_song_title
    lock,                   \* holder of self._lock, or None
    \* sequential API client (SpecStore)
    line,                   \* the lyric text the client uses in its records
    call,                   \* the last completed API call: operation, arguments, result
    \* LLMAnalysis._process_stream (SpecParse)
    candidates,             \* what the reply holds: one descriptor per <<END>> section
    chunk_stream,           \* the text of the reply that has not arrived yet
    buffer,                 \* buffer
    total_items_processed,  \* total_items_processed
    forwarded,              \* the records passed to storage_callback, in order
    stream_pc,              \* "reading" (in the for loop) or "returned"
    cut_in_sentinel,        \* a fragment has ended inside an <<END>> sentinel
    cut_in_prefix,          \* a fragment has ended inside LYRIC: or SENTENCE:
    final_candidates,       \* the sections parsed after the for loop, in order
    section_lines,          \* SpecSection, SpecTail: the lines of the section drawn
    parsed,                 \* SpecSection: what parse_section returned, once called
    callback_raises,        \* the calls of storage_callback, by rank in a stream, that raise
    \* main.py: the song-change loop, the analysis tasks, the line-change handler
    monitor_pc,             \* where monitor_song_title_and_trigger_analysis is
    last_processed_title,   \* last_processed_title
    song_changes,           \* the number of title changes detected so far
    tasks,                  \* the analysis tasks launched: song and records forwarded
    handler_pc,             \* where handle_new_lyric is
    lyric_line,             \* handle_new_lyric: lyric_line
    handler_song_title,     \* handle_new_lyric: current_song_title
    visual_sentence,        \* handle_new_lyric: visual_sentence
    full_lyrics,            \* the song-change loop: full_lyrics, None before a fetch
    monitor_trace,          \* the calls the loop has made for the last new title
    \* LLMAnalysis.analyze_lyrics_in_background / _perform_analysis_thread
    cleaned_lyrics,         \* cleaned_lyrics
    client,                 \* self.client and self.model are initialized
    analysis_status,        \* the status analyze_lyrics_in_background returned,
                            \* "" while it has not returned
    retry_pc,               \* where the analysis thread is
    attempt,                \* attempt
    current_delay,          \* current_delay, in units of 1/255 second
    sleeps,                 \* the delays passed to time.sleep, in order
    requests,               \* the number of generate_content calls made
    errors,                 \* the exceptions the service has raised, in order
    \* ImageSearcher (SpecSearch)
    image_embeddings,       \* self.image_embeddings: one vector per row
    image_paths,            \* self.image_paths
    argsort_ties,           \* the order in which np.argsort leaves equal scores
    text_embedding,         \* search: text_embedding of the last call
    top_k,                  \* search: top_k of the last call
    results,                \* search: the list returned by the last call
    search_returned,        \* "not called", "list" or "None": what search returned
    first_search,           \* the first search call of the run and what it returned
    \* main.py: one whole run of handle_new_lyric (SpecHandler)
    handler_trace,          \* the calls the last run made, in order
    handler_outcomes,       \* the outcomes the last run surfaced, in order
    handler_embedding,      \* what generate_embedding did in the last run
    handler_results,        \* what search returned to the last run
    displayed,              \* the path passed to display_top_image, or 0
    \* main.py: run_visualizer_app and the two polling threads (SpecApp)
    app_pc,                 \* where run_visualizer_app is
    init_failure,           \* what went wrong during initialization, or "none"
    stop_event,             \* stop_event.is_set()
    title_thread,           \* where TitleMonitorThread is
    lyric_thread,           \* where LyricMonitorThread is
    title_exit,             \* why the song-change loop was left, "" while it runs
    lyric_exit,             \* why the line-change loop was left, "" while it runs
    join_warnings,          \* the threads reported as not finished cleanly
    driver,                 \* song_info.driver is set
    task_launched,          \* analyze_lyrics_in_background has been called
    \* history kept for the claims of SpecUpsert
    previous_call,          \* the storage call made before `call'
    \* song_info.py: monitor_current_lyric (SpecSource)
    last_active_lyric_text, \* last_active_lyric_text
    source_pc,              \* "polling" in the while loop, "stopped" after a break
    source_polls,           \* one entry per iteration: what it saw and delivered
    \* song_state.py: SongState (SpecState)
    song_state,             \* the fields of the object: name -> value
    state_lock,             \* self._lock: None when free, else the holder
    update_kwargs,          \* update: the names still to be set by the call in progress
    update_count,           \* the number of update calls started
    payload,                \* to_dict: the values read so far for the dict being built
    \* history kept for the claims of Spec
    writes,                 \* the entries written into the store: where, when, what
    last_start,             \* title -> the rank of its last start_new_song, 0 for none
    observed_titles         \* what get_song_title returned to the last two polls

storeVars == <<song_data, current_song_title, lock>>
clientVars == <<line, call>>
parserVars == <<candidates, chunk_stream, buffer, total_items_processed,
                forwarded, stream_pc, cut_in_sentinel, cut_in_prefix,
                final_candidates, section_lines, parsed, callback_raises>>
pipelineVars == <<monitor_pc, last_processed_title, song_changes, tasks,
                  handler_pc, lyric_line, handler_song_title, visual_sentence,
                  full_lyrics, monitor_trace>>
retryVars == <<cleaned_lyrics, client, analysis_status, retry_pc, attempt,
               current_delay, sleeps, requests, errors>>
searchVars == <<image_embeddings, image_paths, argsort_ties, text_embedding,
                top_k, results, search_returned, first_search>>
handlerVars == <<handler_trace, handler_outcomes, handler_embedding,
                 handler_results, displayed>>
appVars == <<app_pc, init_failure, stop_event, title_thread, lyric_thread,
             title_exit, lyric_exit, join_warnings, driver, task_launched>>
sourceVars == <<last_active_lyric_text, source_pc, source_polls>>
stateVars == <<song_state, state_lock, update_kwargs, update_count, payload>>
historyVars == <<writes, last_start, observed_titles>>
auxVars == <<previous_call, last_active_lyric_text, source_pc, source_polls,
             song_state, state_lock, update_kwargs, update_count, payload,
             writes, last_start, observed_titles>>
vars == <<song_data, current_song_title, lock, line, call,
          candidates, chunk_stream, buffer, total_items_processed,
          forwarded, stream_pc, cut_in_sentinel, cut_in_prefix,
          final_candidates, section_lines, parsed, callback_raises,
          monitor_pc, last_processed_title, song_changes, tasks,
          handler_pc, lyric_line, handler_song_title, visual_sentence,
          full_lyrics, monitor_trace,
          cleaned_lyrics, client, analysis_status, retry_pc, attempt,
          current_delay, sleeps, requests, errors,
          image_embeddings, image_paths, argsort_ties, text_embedding,
          top_k, results, search_returned, first_search,
          handler_trace, handler_outcomes, handler_embedding, handler_results,
          displayed,
          app_pc, init_failure, stop_event, title_thread, lyric_thread,
          title_exit, lyric_exit, join_warnings, driver, task_launched,
          previous_call, last_active_lyric_text, source_pc, source_polls,
          song_state, state_lock, update_kwargs, update_count, payload,
          writes, last_start, observed_titles>>

None == <<"None">>

(***************************************************************************)
(* Text helpers: what str.strip, str.split, str.join, str.lower and        *)
(* str.translate do on a sequence of characters.                           *)
(***************************************************************************)
Whitespace == {" ", "\t", "\n", "\r"}

UpperCase == <<"A","B","C","D","E","F","G","H","I","J","K","L","M",
               "N","O","P","Q","R","S","T","U","V","W","X","Y","Z">>
LowerCase == <<"a","b","c","d","e","f","g","h","i","j","k","l","m",
               "n","o","p","q","r","s","t","u","v","w","x","y","z">>

\* string.punctuation (its double quote, backslash and backquote are left out:
\* none occurs in any text of the model)
Punctuation == {"!", "#", "$", "%", "&", "'", "(", ")", "*", "+", ",",
                "-", ".", "/", ":", ";", "<", "=", ">", "?", "@", "[",
                "]", "^", "_", "{", "|", "}", "~"}

UpperToLower ==
    [c \in {UpperCase[i] : i \in 1..Len(UpperCase)} |->
        LowerCase[CHOOSE i \in 1..Len(UpperCase) : UpperCase[i] = c]]

\* str.lower on one character
LowerChar(c) == IF c \in DOMAIN UpperToLower THEN UpperToLower[c] ELSE c

\* str.lower
Lower(s) == [i \in 1..Len(s) |-> LowerChar(s[i])]

\* str.translate with a deletion table
DeleteChars(s, dels) == SelectSeq(s, LAMBDA c : c \notin dels)

RECURSIVE LStrip(_)
LStrip(s) ==
    IF s # <<>> /\ Head(s) \in Whitespace THEN LStrip(Tail(s)) ELSE s

RECURSIVE RStrip(_)
RStrip(s) ==
    IF s # <<>> /\ s[Len(s)] \in Whitespace
    THEN RStrip(SubSeq(s, 1, Len(s) - 1))
    ELSE s

\* str.strip()
Strip(s) == RStrip(LStrip(s))

\* str.split(): the maximal runs of non-whitespace characters
RECURSIVE SplitWords(_, _)
SplitWords(s, word) ==
    IF s = <<>>
    THEN IF word = <<>> THEN <<>> ELSE <<word>>
    ELSE IF Head(s) \in Whitespace
         THEN IF word = <<>>
              THEN SplitWords(Tail(s), <<>>)
              ELSE <<word>> \o SplitWords(Tail(s), <<>>)
         ELSE SplitWords(Tail(s), Append(word, Head(s)))

\* sep.join(words)
RECURSIVE Join(_, _)
Join(words, sep) ==
    IF words = <<>> THEN <<>>
    ELSE IF Len(words) = 1 THEN words[1]
    ELSE words[1] \o sep \o Join(Tail(words), sep)

(***************************************************************************)
(* SongAnalysisStorage                                                     *)
(***************************************************************************)
\* punctuation_to_remove = string.punctuation.replace("'", "")
PunctuationToRemove == Punctuation \ {"'"}

\* ' '.join(normalized.split())
CollapseSpaces(s) == Join(SplitWords(s, <<>>), <<" ">>)

\* _normalize_lyric
NormalizeLyric(lyric_text) ==
    IF lyric_text = <<>> \/ lyric_text = None
    THEN <<>>
    ELSE CollapseSpaces(Strip(Lower(DeleteChars(lyric_text, PunctuationToRemove))))

\* a Python dict as a function on its set of keys
EmptyDict == <<>>
DictSet(d, k, v) == [x \in (DOMAIN d) \cup {k} |-> IF x = k THEN v ELSE d[x]]
DictGet(d, k) == IF k \in DOMAIN d THEN d[k] ELSE None

\* Python truthiness of a str or None
Truthy(x) == x # None /\ x # <<>>


\* the texts over a set of characters, up to a length
RECURSIVE TextsUpTo(_, _)
TextsUpTo(chars, n) ==
    IF n = 0 THEN {<<>>}
    ELSE LET shorter == TextsUpTo(chars, n - 1)
         IN  shorter \cup {Append(t, c) : t \in shorter, c \in chars}

\* start_new_song, line 46
SetCurrentSong(song_title) == current_song_title' = song_title

\* A mutant of the table replacement: every song's table is emptied.
ClearEveryTable(song_title) ==
    song_data' = [t \in (DOMAIN song_data) \cup {song_title} |-> EmptyDict]

\* A mutant of the table replacement: the table of the song is deleted.
DropSongTable(song_title) ==
    song_data' = [t \in (DOMAIN song_data) \ {song_title} |-> song_data[t]]

\* A mutant of the table replacement: a table that exists is kept as it is.
KeepSongTable(song_title) ==
    song_data' = IF song_title \in DOMAIN song_data THEN song_data
                 ELSE DictSet(song_data, song_title, EmptyDict)

\* start_new_song, line 48
ClearSongTable(song_title) == song_data' = DictSet(song_data, song_title, EmptyDict)

\* A mutant of the checks: a lyric that normalizes to nothing is let through.
AddAcceptedUnnormalized(analysis_data) ==
    /\ Truthy(analysis_data.lyric)
    /\ Truthy(analysis_data.sentence)

\* add_analysis_line, lines 58-68: the checks made before the lock is taken
AddAccepted(analysis_data) ==
    /\ Truthy(analysis_data.lyric)
    /\ Truthy(analysis_data.sentence)
    /\ NormalizeLyric(analysis_data.lyric) # <<>>

\* A mutant of the write of add_analysis_line: the raw lyric is the key.
StoreSentenceRawKey(analysis_data) ==
    IF current_song_title = None
    THEN UNCHANGED song_data
    ELSE song_data' =
           DictSet(song_data, current_song_title,
                   DictSet(IF current_song_title \in DOMAIN song_data
                           THEN song_data[current_song_title] ELSE EmptyDict,
                           analysis_data.lyric, analysis_data.sentence))

\* A mutant of the write of add_analysis_line: a key that is in the table
\* keeps its sentence (dict.setdefault in place of the assignment).
StoreSentenceKeepFirst(analysis_data) ==
    IF current_song_title = None
    THEN UNCHANGED song_data
    ELSE LET table == IF current_song_title \in DOMAIN song_data
                      THEN song_data[current_song_title] ELSE EmptyDict
             key == NormalizeLyric(analysis_data.lyric)
         IN  song_data' =
               DictSet(song_data, current_song_title,
                       IF key \in DOMAIN table THEN table
                       ELSE DictSet(table, key, analysis_data.sentence))

\* add_analysis_line, lines 70-82: the body run under the lock
StoreSentence(analysis_data) ==
    IF current_song_title = None
    THEN UNCHANGED song_data
    ELSE song_data' =
           DictSet(song_data, current_song_title,
                   DictSet(IF current_song_title \in DOMAIN song_data
                           THEN song_data[current_song_title] ELSE EmptyDict,
                           NormalizeLyric(analysis_data.lyric),
                           analysis_data.sentence))

\* A mutant of find_analysis_by_lyric: the lookup text is not normalized.
FindAnalysisRawLookup(data, song_title, current_lyric_text) ==
    IF ~Truthy(song_title) \/ ~Truthy(current_lyric_text) THEN None
    ELSE IF song_title \in DOMAIN data /\ data[song_title] # EmptyDict
         THEN DictGet(data[song_title], current_lyric_text)
         ELSE None

\* find_analysis_by_lyric, lines 96-116: the value returned on the store `data`
FindAnalysis(data, song_title, current_lyric_text) ==
    IF ~Truthy(song_title) \/ ~Truthy(current_lyric_text) THEN None
    ELSE LET normalized_lookup == NormalizeLyric(current_lyric_text)
         IN  IF normalized_lookup = <<>> THEN None
             ELSE IF song_title \in DOMAIN data /\ data[song_title] # EmptyDict
                  THEN DictGet(data[song_title], normalized_lookup)
                  ELSE None

(***************************************************************************)
(* SpecStore: one client calls the storage API, one call at a time, with   *)
(* arguments drawn from bounded sets.  Every call runs to its return in    *)
(* one step (the lock is free before and after it).  The lyric text of     *)
(* the client's records is drawn when the client starts; lookups with      *)
(* every other text are covered by the formulas, which range over Lines.   *)
(***************************************************************************)
MaxLineLen == 2

\* a lower-case and an upper-case letter, a punctuation mark that is
\* removed, the apostrophe that is kept, and a blank
LineChars == {"a", "A", "!", "'", " "}
Lines == TextsUpTo(LineChars, MaxLineLen)

SongA == <<"A">>
SongB == <<"B">>
Titles == {SongA, SongB}
TitleArgs == Titles \cup {<<>>, None}
Sentences == {<<"s">>, <<"t">>}
SentenceArgs == Sentences \cup {<<>>, None}

NoCall == [op |-> "none", title |-> None, lyric |-> None, sentence |-> None,
           ret |-> None]

StoreInit ==
    /\ song_data = EmptyDict
    /\ current_song_title = None
    /\ lock = None

\* A mutant of start_new_song: the title is not checked.
start_new_song_unchecked(song_title) ==
    /\ lock = None
    /\ SetCurrentSong(song_title) /\ ClearSongTable(song_title)
    /\ call' = [NoCall EXCEPT !.op = "start_new_song", !.title = song_title]
    /\ UNCHANGED <<lock, line>>

\* start_new_song, lines 36-48
start_new_song(song_title) ==
    /\ lock = None
    /\ IF ~Truthy(song_title)
       THEN UNCHANGED <<song_data, current_song_title>>
       ELSE SetCurrentSong(song_title) /\ ClearSongTable(song_title)
    /\ call' = [NoCall EXCEPT !.op = "start_new_song", !.title = song_title]
    /\ UNCHANGED <<lock, line>>

\* add_analysis_line, lines 50-82
add_analysis_line(analysis_data) ==
    /\ lock = None
    /\ IF AddAccepted(analysis_data)
       THEN StoreSentence(analysis_data)
       ELSE UNCHANGED song_data
    /\ call' = [NoCall EXCEPT !.op = "add_analysis_line",
                              !.lyric = analysis_data.lyric,
                              !.sentence = analysis_data.sentence]
    /\ UNCHANGED <<current_song_title, lock, line>>

\* A mutant of find_analysis_by_lyric: a lookup creates the song's table
\* (dict.setdefault in place of dict.get).
find_analysis_by_lyric_setdefault(song_title, current_lyric_text) ==
    /\ lock = None
    /\ call' = [NoCall EXCEPT !.op = "find_analysis_by_lyric",
                              !.title = song_title,
                              !.lyric = current_lyric_text,
                              !.ret = FindAnalysis(song_data, song_title,
                                                   current_lyric_text)]
    /\ song_data' = IF song_title \in DOMAIN song_data
                    THEN song_data
                    ELSE DictSet(song_data, song_title, EmptyDict)
    /\ UNCHANGED <<current_song_title, lock, line>>

\* find_analysis_by_lyric, lines 84-116
find_analysis_by_lyric(song_title, current_lyric_text) ==
    /\ lock = None
    /\ call' = [NoCall EXCEPT !.op = "find_analysis_by_lyric",
                              !.title = song_title,
                              !.lyric = current_lyric_text,
                              !.ret = FindAnalysis(song_data, song_title,
                                                   current_lyric_text)]
    /\ UNCHANGED <<song_data, current_song_title, lock, line>>

\* get_current_song_title, lines 123-125
get_current_song_title ==
    /\ lock = None
    /\ call' = [NoCall EXCEPT !.op = "get_current_song_title",
                              !.ret = current_song_title]
    /\ UNCHANGED <<song_data, current_song_title, lock, line>>

\* no reply is being parsed
ParserIdle ==
    /\ candidates = <<>>
    /\ chunk_stream = <<>>
    /\ buffer = <<>>
    /\ total_items_processed = 0
    /\ forwarded = <<>>
    /\ stream_pc = "returned"
    /\ cut_in_sentinel = FALSE
    /\ cut_in_prefix = FALSE
    /\ final_candidates = <<>>
    /\ section_lines = <<>>
    /\ parsed = <<>>
    /\ callback_raises = {}

\* the threads of main.py have not started
PipelineIdle ==
    /\ monitor_pc = "poll"
    /\ last_processed_title = None
    /\ song_changes = 0
    /\ tasks = <<>>
    /\ handler_pc = "idle"
    /\ lyric_line = None
    /\ handler_song_title = None
    /\ visual_sentence = None
    /\ full_lyrics = None
    /\ monitor_trace = <<>>

\* analyze_lyrics_in_background has not been called
RetryIdle ==
    /\ cleaned_lyrics = <<>>
    /\ client = TRUE
    /\ analysis_status = ""
    /\ retry_pc = "idle"
    /\ attempt = 0
    /\ current_delay = 0
    /\ sleeps = <<>>
    /\ requests = 0
    /\ errors = <<>>

\* handle_new_lyric has not run
HandlerIdle ==
    /\ handler_trace = <<>>
    /\ handler_outcomes = <<>>
    /\ handler_embedding = "not called"
    /\ handler_results = "not searched"
    /\ displayed = 0

\* run_visualizer_app has not been called
AppIdle ==
    /\ app_pc = "init"
    /\ init_failure = "none"
    /\ stop_event = FALSE
    /\ title_thread = "unstarted"
    /\ lyric_thread = "unstarted"
    /\ title_exit = ""
    /\ lyric_exit = ""
    /\ join_warnings = {}
    /\ driver = FALSE
    /\ task_launched = FALSE

\* the attributes of SongState that to_dict reads (lines 20-23)
StateFields ==
    {"song_title", "original_lyric", "analyzed_lyric", "lyric_image_path"}

\* no history has been kept, the event source and the song state are as
\* constructed
AuxIdle ==
    /\ previous_call = NoCall
    /\ last_active_lyric_text = None
    /\ source_pc = "polling"
    /\ source_polls = <<>>
    /\ song_state = [field \in StateFields |-> 0]
    /\ state_lock = None
    /\ update_kwargs = <<>>
    /\ update_count = 0
    /\ payload = <<>>
    /\ writes = {}
    /\ last_start = [song_title \in Titles |-> 0]
    /\ observed_titles = <<None, None>>

NoSearch ==
    [q |-> None, k |-> 0, returned |-> "not called", results |-> <<>>, later |-> 0]

SearchIdle ==
    /\ first_search = NoSearch
    /\ image_embeddings = <<>>
    /\ image_paths = <<>>
    /\ argsort_ties = <<>>
    /\ text_embedding = None
    /\ top_k = 0
    /\ results = <<>>
    /\ search_returned = "not called"

ApiInit ==
    /\ StoreInit
    /\ line \in Lines
    /\ call = NoCall
    /\ ParserIdle
    /\ PipelineIdle
    /\ RetryIdle
    /\ SearchIdle
    /\ HandlerIdle
    /\ AppIdle
    /\ AuxIdle

ApiNext ==
    /\ \/ \E t \in TitleArgs : start_new_song(t)
       \/ \E l \in {line, None}, s \in SentenceArgs :
             add_analysis_line([lyric |-> l, sentence |-> s])
       \/ \E t \in TitleArgs : find_analysis_by_lyric(t, line)
       \/ get_current_song_title
    /\ UNCHANGED <<parserVars, pipelineVars, retryVars, searchVars, handlerVars,
                   appVars, auxVars>>

SpecStore == ApiInit /\ [][ApiNext]_vars

(***************************************************************************)
(* Claims about the storage API, checked under SpecStore.                  *)
(***************************************************************************)
\* the step just taken was a call of `op`
Called(op) == call'.op = op

HasEntries(song_title) ==
    song_title \in DOMAIN song_data /\ song_data[song_title] # EmptyDict

\* C2, as stated: once start_new_song(B) has returned, find_analysis_by_lyric(A,
\* line) returns None for every other song A and every line, even when A's table
\* had entries before B was started.
C2_OtherSongsAbsentAfterStart ==
    (call.op = "start_new_song" /\ Truthy(call.title)) =>
        \A a \in Titles \ {call.title} : \A l \in Lines :
            FindAnalysis(song_data, a, l) = None

\* C2, amended: start_new_song(B) replaces the table of B alone by an empty one
\* (every lookup in B returns None) and leaves the table of every other song A
\* as it was: find_analysis_by_lyric(A, line) returns what it returned before.
C2_StartReplacesOwnTableOnly ==
    [][(Called("start_new_song") /\ Truthy(call'.title)) =>
          /\ song_data'[call'.title] = EmptyDict
          /\ FindAnalysis(song_data', call'.title, line) = None
          /\ \A a \in Titles \ {call'.title} :
                /\ a \in DOMAIN song_data' <=> a \in DOMAIN song_data
                /\ a \in DOMAIN song_data => song_data'[a] = song_data[a]
                /\ FindAnalysis(song_data', a, line)
                     = FindAnalysis(song_data, a, line)]_vars

\* C2's case: B has just been started while A's table holds an entry.
C2_Witness ==
    /\ call.op = "start_new_song" /\ call.title = SongB
    /\ current_song_title = SongB
    /\ HasEntries(SongA)
    /\ FindAnalysis(song_data, SongA, line) \in Sentences

\* C3, as stated: with a current song, add_analysis_line of a record with a
\* non-empty lyric L and a non-empty sentence S makes
\* find_analysis_by_lyric(current song, L) return S.
C3_RoundTripNonEmpty ==
    (/\ call.op = "add_analysis_line"
     /\ Truthy(call.lyric) /\ Truthy(call.sentence)
     /\ current_song_title # None) =>
        FindAnalysis(song_data, current_song_title, call.lyric) = call.sentence

\* C3, amended: the round trip holds for every lyric L whose normalized form is
\* not empty (and every non-empty sentence S), under a current song.
C3_RoundTripNormalized ==
    (/\ call.op = "add_analysis_line"
     /\ Truthy(call.lyric) /\ Truthy(call.sentence)
     /\ NormalizeLyric(call.lyric) # <<>>
     /\ current_song_title # None) =>
        FindAnalysis(song_data, current_song_title, call.lyric) = call.sentence

\* C3's case: a record was added under a current song and is found again.
C3_Witness ==
    /\ call.op = "add_analysis_line"
    /\ call.sentence \in Sentences
    /\ current_song_title \in Titles
    /\ call.lyric # NormalizeLyric(call.lyric)
    /\ FindAnalysis(song_data, current_song_title, call.lyric) = call.sentence

C6_RejectedAddChangesNothing ==
    [][(/\ Called("add_analysis_line")
        /\ \/ ~Truthy(call'.lyric)
           \/ ~Truthy(call'.sentence)
           \/ NormalizeLyric(call'.lyric) = <<>>
           \/ current_song_title = None) =>
          UNCHANGED <<song_data, current_song_title>>]_vars

\* C6's case: a record whose non-empty lyric normalizes to nothing has been
\* offered, with a sentence, while a song was current.
C6_Witness ==
    /\ call.op = "add_analysis_line"
    /\ Truthy(call.lyric) /\ NormalizeLyric(call.lyric) = <<>>
    /\ call.sentence \in Sentences
    /\ current_song_title \in Titles

\* C7: start_new_song with an empty (or missing) title changes neither the
\* current-song pointer nor any table.
C7_EmptyTitleIsNoOp ==
    [][(Called("start_new_song") /\ ~Truthy(call'.title)) =>
          UNCHANGED <<song_data, current_song_title>>]_vars

\* C7's case: start_new_song("") has been called on a store with a current song
\* and a stored entry.
C7_Witness ==
    /\ call.op = "start_new_song" /\ call.title = <<>>
    /\ current_song_title \in Titles
    /\ HasEntries(current_song_title)

\* the line is not stored for the song: the song was never started, or has no
\* line yet, or lacks this line
NotStored(data, song_title, text) ==
    \/ song_title \notin DOMAIN data
    \/ data[song_title] = EmptyDict
    \/ NormalizeLyric(text) \notin DOMAIN data[song_title]

\* C8: find_analysis_by_lyric changes nothing in the store, and returns None
\* for a song never started, a started song without lines and a line that is not
\* stored, whatever the line text (the text looked up is any of Lines; where
\* the song has lines, every text of Lines that is not stored is tried).
C8_FindAbsentAndPure ==
    [][Called("find_analysis_by_lyric") =>
          /\ UNCHANGED <<song_data, current_song_title>>
          /\ NotStored(song_data, call'.title, call'.lyric) => call'.ret = None
          /\ HasEntries(call'.title) =>
                \A l \in Lines :
                    NotStored(song_data, call'.title, l) =>
                        FindAnalysis(song_data, call'.title, l) = None]_vars

\* C8's case: a lookup in a started song without lines has returned None while
\* another song holds the line.
C8_Witness ==
    /\ call.op = "find_analysis_by_lyric"
    /\ call.title \in DOMAIN song_data /\ song_data[call.title] = EmptyDict
    /\ NormalizeLyric(call.lyric) # <<>>
    /\ call.ret = None
    /\ \E t \in Titles : HasEntries(t)

(***************************************************************************)
(* LLMAnalysis.parse_section and LLMAnalysis._process_stream               *)
(***************************************************************************)
Sentinel == <<"<", "<", "E", "N", "D", ">", ">">>
LyricPrefix == <<"L", "Y", "R", "I", "C", ":">>
SentencePrefix == <<"S", "E", "N", "T", "E", "N", "C", "E", ":">>
Newline == <<"\n">>

\* sub occurs in s at position i
OccursAt(s, sub, i) ==
    /\ i + Len(sub) - 1 <= Len(s)
    /\ \A j \in 1..Len(sub) : s[i + j - 1] = sub[j]

\* str.find, counted from 1: the first position of sub in s, 0 when there is none
RECURSIVE IndexFrom(_, _, _)
IndexFrom(s, sub, i) ==
    IF i + Len(sub) - 1 > Len(s) THEN 0
    ELSE IF OccursAt(s, sub, i) THEN i
    ELSE IndexFrom(s, sub, i + 1)

\* sub in s
Contains(s, sub) == IndexFrom(s, sub, 1) # 0

\* str.startswith
StartsWith(s, prefix) == OccursAt(s, prefix, 1)

\* s.split(sep, 1), for a separator that first occurs in s at position i
SplitOnce(s, sep, i) ==
    <<SubSeq(s, 1, i - 1), SubSeq(s, i + Len(sep), Len(s))>>

\* s.split('\n')
RECURSIVE SplitLines(_, _)
SplitLines(s, current) ==
    IF s = <<>> THEN <<current>>
    ELSE IF Head(s) = "\n"
         THEN <<current>> \o SplitLines(Tail(s), <<>>)
         ELSE SplitLines(Tail(s), Append(current, Head(s)))

\* A mutant of the loop: the first line with a prefix supplies the value, a
\* later line with the same prefix is passed over.
RECURSIVE ScanLinesFirstWins(_, _)
ScanLinesFirstWins(lines, result) ==
    IF lines = <<>> THEN result
    ELSE LET stripped == Strip(Head(lines))
         IN  IF StartsWith(stripped, LyricPrefix)
             THEN ScanLinesFirstWins(Tail(lines),
                    IF result.lyric # None THEN result
                    ELSE [result EXCEPT !.lyric =
                        Strip(SubSeq(stripped, Len(LyricPrefix) + 1, Len(stripped)))])
             ELSE IF StartsWith(stripped, SentencePrefix)
             THEN ScanLinesFirstWins(Tail(lines),
                    IF result.sentence # None THEN result
                    ELSE [result EXCEPT !.sentence =
                        Strip(SubSeq(stripped, Len(SentencePrefix) + 1, Len(stripped)))])
             ELSE ScanLinesFirstWins(Tail(lines), result)

\* parse_section, lines 158-163: the loop over the lines of the section
RECURSIVE ScanLines(_, _)
ScanLines(lines, result) ==
    IF lines = <<>> THEN result
    ELSE LET stripped == Strip(Head(lines))
         IN  IF StartsWith(stripped, LyricPrefix)
             THEN ScanLines(Tail(lines),
                    [result EXCEPT !.lyric =
                        Strip(SubSeq(stripped, Len(LyricPrefix) + 1, Len(stripped)))])
             ELSE IF StartsWith(stripped, SentencePrefix)
             THEN ScanLines(Tail(lines),
                    [result EXCEPT !.sentence =
                        Strip(SubSeq(stripped, Len(SentencePrefix) + 1, Len(stripped)))])
             ELSE ScanLines(Tail(lines), result)

\* the None that parse_section returns in place of a record
NoRecord == [lyric |-> None, sentence |-> None]

\* parse_section, lines 150-170: the record, or NoRecord
parse_section(section_text) ==
    LET section == Strip(section_text)
    IN  IF section = <<>> THEN NoRecord
        ELSE LET result == ScanLines(SplitLines(section, <<>>),
                                     [lyric |-> None, sentence |-> None])
             IN  IF Truthy(result.lyric) /\ Truthy(result.sentence)
                 THEN result
                 ELSE NoRecord

\* A mutant of the while loop: the records are passed on last first.
RECURSIVE DrainBufferLastFirst(_, _)
DrainBufferLastFirst(buf, records) ==
    LET found == IndexFrom(buf, Sentinel, 1)
    IN  IF found = 0
        THEN [buffer |-> buf, records |-> records]
        ELSE LET parts == SplitOnce(buf, Sentinel, found)
                 section == Strip(parts[1])
                 parsed_data == parse_section(section)
             IN  IF section # <<>> /\ parsed_data # NoRecord
                 THEN DrainBufferLastFirst(parts[2], <<parsed_data>> \o records)
                 ELSE DrainBufferLastFirst(parts[2], records)

\* A mutant of the while loop: an `if', so that one section at most is taken
\* from the buffer for each fragment.
DrainBufferOnce(buf, records) ==
    LET found == IndexFrom(buf, Sentinel, 1)
    IN  IF found = 0
        THEN [buffer |-> buf, records |-> records]
        ELSE LET parts == SplitOnce(buf, Sentinel, found)
                 section == Strip(parts[1])
                 parsed_data == parse_section(section)
             IN  IF section # <<>> /\ parsed_data # NoRecord
                 THEN [buffer |-> parts[2], records |-> Append(records, parsed_data)]
                 ELSE [buffer |-> parts[2], records |-> records]

\* A mutant of the while loop: a section that does not parse ends the loop and
\* empties the buffer.
RECURSIVE DrainBufferAbort(_, _)
DrainBufferAbort(buf, records) ==
    LET found == IndexFrom(buf, Sentinel, 1)
    IN  IF found = 0
        THEN [buffer |-> buf, records |-> records]
        ELSE LET parts == SplitOnce(buf, Sentinel, found)
                 section == Strip(parts[1])
                 parsed_data == parse_section(section)
             IN  IF section # <<>> /\ parsed_data # NoRecord
                 THEN DrainBufferAbort(parts[2], Append(records, parsed_data))
                 ELSE [buffer |-> <<>>, records |-> records]

\* _process_stream, lines 214-235: the while loop; it returns the buffer that is
\* left and the records it passed to storage_callback
RECURSIVE DrainBuffer(_, _)
DrainBuffer(buf, records) ==
    LET found == IndexFrom(buf, Sentinel, 1)
    IN  IF found = 0
        THEN [buffer |-> buf, records |-> records]
        ELSE LET parts == SplitOnce(buf, Sentinel, found)
                 section == Strip(parts[1])
                 parsed_data == parse_section(section)
             IN  IF section # <<>> /\ parsed_data # NoRecord
                 THEN DrainBuffer(parts[2], Append(records, parsed_data))
                 ELSE DrainBuffer(parts[2], records)

\* A mutant of lines 248-250: whatever is left in the buffer is parsed.
LooksLikeSectionAlways(remaining_section) == remaining_section # <<>>

\* _process_stream, lines 248-250: what is left is not empty and holds one of
\* the two prefixes somewhere
LooksLikeSection(remaining_section) ==
    /\ remaining_section # <<>>
    /\ \/ Contains(remaining_section, LyricPrefix)
       \/ Contains(remaining_section, SentencePrefix)

\* _process_stream, lines 247-252: the sections passed to parse_section for
\* what is left in the buffer when the stream has ended
FinalCandidates(buf) ==
    LET remaining_section == Strip(buf)
    IN  IF LooksLikeSection(remaining_section)
        THEN <<remaining_section>>
        ELSE <<>>

\* _process_stream, lines 246-261: the records passed to storage_callback for
\* what is left in the buffer when the stream has ended
FinalRecords(buf) ==
    LET remaining_section == Strip(buf)
        parsed_data == parse_section(remaining_section)
    IN  IF LooksLikeSection(remaining_section) /\ parsed_data # NoRecord
        THEN <<parsed_data>>
        ELSE <<>>

\* add_analysis_line, lines 50-82, as a function of the store: the store after
\* the call, with `title' the current song
AddAnalysisLine(data, title, analysis_data) ==
    IF ~AddAccepted(analysis_data) \/ title = None THEN data
    ELSE DictSet(data, title,
                 DictSet(IF title \in DOMAIN data THEN data[title] ELSE EmptyDict,
                         NormalizeLyric(analysis_data.lyric),
                         analysis_data.sentence))

\* storage_callback(parsed_data), lines 227-231 and 255-259, for each of the
\* records in turn, with add_analysis_line as the callback
RECURSIVE StorageCallbacks(_, _, _)
StorageCallbacks(data, title, records) ==
    IF records = <<>> THEN data
    ELSE StorageCallbacks(AddAnalysisLine(data, title, Head(records)), title,
                          Tail(records))

\* lines 227-231 and 255-259: of the records passed to storage_callback after
\* `done' others, those for which the call returns; for the others it raises
\* before it has stored anything, and the except clause logs the exception
RECURSIVE CallbacksReturned(_, _)
CallbacksReturned(records, done) ==
    IF records = <<>> THEN <<>>
    ELSE (IF done + 1 \in callback_raises THEN <<>> ELSE <<Head(records)>>)
            \o CallbacksReturned(Tail(records), done + 1)

\* A mutant of the count: the record is counted inside the try, after the
\* call of storage_callback has returned.
ItemsProcessedIfReturned(records, done) ==
    Len(CallbacksReturned(records, done))

\* lines 232 and 260: total_items_processed += 1 for each record passed to
\* storage_callback, after the try statement around the call
ItemsProcessed(records, done) == Len(records)

\* A mutant of line 211: the buffer is replaced by the fragment.
BufferReplace(buf, chunk_text) == chunk_text

\* _process_stream, line 211: buffer += chunk_text
BufferAppend(buf, chunk_text) == buf \o chunk_text

(***************************************************************************)
(* SpecParse: one run of _process_stream over a reply that arrives in      *)
(* fragments of any lengths.  The reply is drawn first: up to              *)
(* MaxCandidates sections, each closed by the sentinel, each with or       *)
(* without a LYRIC line and a SENTENCE line, whose value may be empty.     *)
(* The values differ from section to section (a, b, then c, d, ...).       *)
(***************************************************************************)
MaxCandidates == 2

\* how a LYRIC or SENTENCE line shows in a section: with a value, with an
\* empty value, or not at all
FieldKinds == {"text", "empty", "none"}
\* the sections of the model: complete, or with one defect (no SENTENCE line,
\* a SENTENCE line without a value, no LYRIC line)
CandidateKinds ==
    {kind \in [lyric : FieldKinds, sentence : FieldKinds] :
        \/ kind.lyric = "text"
        \/ kind.lyric = "none" /\ kind.sentence = "text"}

\* the value of the i-th section's LYRIC and SENTENCE line
LyricValue(i) == <<LowerCase[2 * i - 1]>>
SentenceValue(i) == <<LowerCase[2 * i]>>

FieldLine(prefix, kind, value) ==
    CASE kind = "text"  -> prefix \o <<" ">> \o value \o Newline
      [] kind = "empty" -> prefix \o Newline
      [] kind = "none"  -> <<>>

\* the text of the i-th section, as the prompt asks for it (lines 73-75)
CandidateText(i, kind) ==
    FieldLine(LyricPrefix, kind.lyric, LyricValue(i))
        \o FieldLine(SentencePrefix, kind.sentence, SentenceValue(i))
        \o Sentinel

RECURSIVE ReplyText(_, _)
ReplyText(kinds, i) ==
    IF i > Len(kinds) THEN <<>>
    ELSE CandidateText(i, kinds[i]) \o ReplyText(kinds, i + 1)

Replies == UNION {[1..n -> CandidateKinds] : n \in 0..MaxCandidates}

\* the store when the task starts: main.py has called start_new_song (line
\* 173) before it launches the task (line 180)
ParseInit ==
    /\ song_data = DictSet(EmptyDict, SongA, EmptyDict)
    /\ current_song_title = SongA
    /\ lock = None
    /\ line = <<>>
    /\ call = NoCall
    /\ candidates \in Replies
    /\ chunk_stream = ReplyText(candidates, 1)
    /\ buffer = <<>>
    /\ total_items_processed = 0
    /\ forwarded = <<>>
    /\ stream_pc = "reading"
    /\ cut_in_sentinel = FALSE
    /\ cut_in_prefix = FALSE
    /\ final_candidates = <<>>
    /\ section_lines = <<>>
    /\ parsed = <<>>
    /\ callback_raises = {}
    /\ PipelineIdle
    /\ RetryIdle
    /\ SearchIdle
    /\ HandlerIdle
    /\ AppIdle
    /\ AuxIdle

\* a fragment boundary falls inside a token: what has arrived ends with the
\* first k characters of the token and what follows starts with the others
CutsToken(token, arrived, rest) ==
    \E k \in 1..(Len(token) - 1) :
        /\ k <= Len(arrived)
        /\ Len(token) - k <= Len(rest)
        /\ \A j \in 1..k : arrived[Len(arrived) - k + j] = token[j]
        /\ \A j \in 1..(Len(token) - k) : rest[j] = token[k + j]

\* _process_stream, lines 189-243: one iteration of the for loop, on a fragment
\* of n characters (none for a chunk without text)
ReadChunk(n) ==
    /\ stream_pc = "reading"
    /\ LET chunk_text == SubSeq(chunk_stream, 1, n)
           rest == SubSeq(chunk_stream, n + 1, Len(chunk_stream))
           appended == BufferAppend(buffer, chunk_text)
           drained == DrainBuffer(appended, <<>>)
       IN  /\ buffer' = drained.buffer
           /\ forwarded' = forwarded \o drained.records
           /\ song_data' =
                StorageCallbacks(song_data, current_song_title,
                    CallbacksReturned(drained.records, total_items_processed))
           /\ total_items_processed' =
                total_items_processed
                    + ItemsProcessed(drained.records, total_items_processed)
           /\ chunk_stream' = rest
           /\ cut_in_sentinel' =
                (cut_in_sentinel \/ CutsToken(Sentinel, appended, rest))
           /\ cut_in_prefix' =
                (\/ cut_in_prefix
                 \/ CutsToken(LyricPrefix, appended, rest)
                 \/ CutsToken(SentencePrefix, appended, rest))
    /\ UNCHANGED <<candidates, stream_pc, final_candidates, section_lines,
                   parsed, callback_raises>>

\* _process_stream, lines 245-266: the stream has ended
EndOfStream ==
    /\ stream_pc = "reading"
    /\ chunk_stream = <<>>
    /\ forwarded' = forwarded \o FinalRecords(buffer)
    /\ song_data' =
         StorageCallbacks(song_data, current_song_title,
             CallbacksReturned(FinalRecords(buffer), total_items_processed))
    /\ total_items_processed' =
         total_items_processed
             + ItemsProcessed(FinalRecords(buffer), total_items_processed)
    /\ final_candidates' = final_candidates \o FinalCandidates(buffer)
    /\ stream_pc' = "returned"
    /\ UNCHANGED <<candidates, chunk_stream, buffer, cut_in_sentinel,
                   cut_in_prefix, section_lines, parsed, callback_raises>>

ParseNext ==
    /\ \/ \E n \in 0..Len(chunk_stream) : ReadChunk(n)
       \/ EndOfStream
    /\ UNCHANGED <<current_song_title, lock, clientVars, pipelineVars, retryVars,
                 searchVars, handlerVars, appVars, auxVars>>

SpecParse == ParseInit /\ [][ParseNext]_vars

(***************************************************************************)
(* Claims about the stream parser, checked under SpecParse.                *)
(***************************************************************************)

\* _process_stream on the whole text in one fragment: what it forwards
ForwardedInOneFragment(text) ==
    LET drained == DrainBuffer(BufferAppend(<<>>, text), <<>>)
    IN  drained.records \o FinalRecords(drained.buffer)

Complete == [lyric |-> "text", sentence |-> "text"]
LyricOnly == [lyric |-> "text", sentence |-> "none"]
RecordOf(i) == [lyric |-> LyricValue(i), sentence |-> SentenceValue(i)]

\* C9: when _process_stream has returned, the records it forwarded are those
\* it forwards for the same text in a single fragment, wherever the fragments
\* were cut; for the text of two complete records they are {a,b} then {c,d}.
C9_ForwardedIndependentOfSplit ==
    stream_pc = "returned" =>
        /\ forwarded = ForwardedInOneFragment(ReplyText(candidates, 1))
        /\ candidates = <<Complete, Complete>> =>
                forwarded = <<[lyric |-> <<"a">>, sentence |-> <<"b">>],
                              [lyric |-> <<"c">>, sentence |-> <<"d">>]>>

\* two complete records, with a fragment cut inside a sentinel and one inside a
\* prefix, have been parsed into {a,b} then {c,d}
C9_Witness ==
    /\ stream_pc = "returned"
    /\ candidates = <<Complete, Complete>>
    /\ cut_in_sentinel
    /\ cut_in_prefix
    /\ forwarded = <<RecordOf(1), RecordOf(2)>>

\* the records of the well-formed sections among the first n, in order
RECURSIVE WellFormedRecords(_, _)
WellFormedRecords(kinds, n) ==
    IF n = 0 THEN <<>>
    ELSE IF kinds[n] = Complete
         THEN Append(WellFormedRecords(kinds, n - 1), RecordOf(n))
         ELSE WellFormedRecords(kinds, n - 1)

\* the number of sections, among the first n, whose sentinel has arrived in
\* full when the last `remaining' characters of these n sections have not
RECURSIVE SectionsArrived(_, _, _)
SectionsArrived(kinds, n, remaining) ==
    IF remaining <= 0 THEN n
    ELSE SectionsArrived(kinds, n - 1,
                         remaining - Len(CandidateText(n, kinds[n])))

\* C10: at every point of the stream the forwarded records are exactly the
\* records of the well-formed sections that have arrived, in order: nothing
\* is forwarded for a section without a non-empty LYRIC or SENTENCE line, and
\* every well-formed section after it is forwarded.
C10_MalformedDroppedLaterForwarded ==
    /\ forwarded =
          WellFormedRecords(candidates,
              SectionsArrived(candidates, Len(candidates), Len(chunk_stream)))
    /\ total_items_processed = Len(forwarded)

\* a LYRIC-only section followed by a complete one has been parsed, and the
\* one record forwarded is that of the complete section
C10_Witness ==
    /\ stream_pc = "returned"
    /\ candidates = <<LyricOnly, Complete>>
    /\ forwarded = <<[lyric |-> <<"c">>, sentence |-> <<"d">>]>>

\* the section of the reply that a forwarded record comes from
SectionOf(record) ==
    CHOOSE i \in 1..Len(candidates) : RecordOf(i) = record

\* C11: the storage callback is invoked for the records in the order of their
\* sentinels in the stream: what has been passed to the callback is never
\* taken back or reordered, and of two records passed to it the one passed
\* first comes from the earlier section.
C11_CallbacksInStreamOrder ==
    [][/\ Len(forwarded) <= Len(forwarded')
       /\ SubSeq(forwarded', 1, Len(forwarded)) = forwarded
       /\ \A i, j \in 1..Len(forwarded') :
             i < j => SectionOf(forwarded'[i]) < SectionOf(forwarded'[j])]_vars

\* the records of two sections have been passed to the callback while the
\* for loop is still running, the first section's first
C11_Witness ==
    /\ stream_pc = "reading"
    /\ Len(forwarded) = 2
    /\ SectionOf(forwarded[1]) < SectionOf(forwarded[2])

\* C12: records are not batched: whenever the for loop is about to read the
\* next fragment no complete section is left in the buffer, and the store
\* already returns the tag of every well-formed section that has arrived,
\* also while the stream has not ended.
C12_ForwardedBeforeNextFragment ==
    stream_pc = "reading" =>
        /\ ~Contains(buffer, Sentinel)
        /\ \A i \in 1..SectionsArrived(candidates, Len(candidates),
                                        Len(chunk_stream)) :
              candidates[i] = Complete =>
                  FindAnalysis(song_data, current_song_title, LyricValue(i))
                      = SentenceValue(i)

\* the tag of the first line is found in the store while the task is still in
\* its for loop and part of the reply has not arrived
C12_Witness ==
    /\ stream_pc = "reading"
    /\ chunk_stream # <<>>
    /\ candidates = <<Complete, Complete>>
    /\ FindAnalysis(song_data, current_song_title, <<"a">>) = <<"b">>
    /\ FindAnalysis(song_data, current_song_title, <<"c">>) = None

(***************************************************************************)
(* Spec: the running application.  The song-change loop                    *)
(* (monitor_song_title_and_trigger_analysis), the analysis tasks it        *)
(* launches and the line-change handler (handle_new_lyric) run as threads  *)
(* over one SongAnalysisStorage.  A step is a region run under the         *)
(* storage lock, or a part of it where the claims need the grain:          *)
(* start_new_song sets the pointer and replaces the table in two steps,    *)
(* holding the lock in between.  A poll that sees no new title changes     *)
(* nothing and is left out.  An analysis task is taken by what it passes   *)
(* to its callback: one record per line of the song, tagged with the song  *)
(* and the number of the task.                                             *)
(***************************************************************************)
MaxSongChanges == 3

\* the lines of a song as get_fullscreen_lyrics returns them
SongLines == <<<<"x">>, <<"y">>>>

Digits == <<"1", "2", "3", "4", "5", "6", "7", "8", "9">>

\* the image tag the service gives the n-th task for a line of `song_title`
TagOf(song_title, n) == song_title \o <<Digits[n]>>

\* the song a tag was made for
TagTitle(tag) == SubSeq(tag, 1, Len(tag) - 1)

\* the keys of the lines of a song
NormalizedSongLines ==
    {NormalizeLyric(SongLines[i]) : i \in DOMAIN SongLines}

Init ==
    /\ StoreInit
    /\ line = <<>>
    /\ call = NoCall
    /\ ParserIdle
    /\ PipelineIdle
    /\ RetryIdle
    /\ SearchIdle
    /\ HandlerIdle
    /\ AppIdle
    /\ AuxIdle

\* A mutant of `with self._lock` in start_new_song: the lock is not taken.
AcquireNothing(thread) == None

\* with self._lock: the holder of the lock after the thread has entered
Acquire(thread) == <<thread>>

\* A mutant of line 170: a poll that returns a title counts as a change.
TitleChangedAlways(current_title, last) == Truthy(current_title)

\* main.py, line 170 (and song_info.py, line 113): the poll has returned a
\* title, and not the one processed last
TitleChanged(current_title, last) ==
    Truthy(current_title) /\ current_title # last

\* main.py, lines 168-172: the poll returns a title that differs from the last
\* one processed
update_song_title(current_title) ==
    /\ monitor_pc = "poll"
    /\ song_changes < MaxSongChanges
    /\ TitleChanged(current_title, last_processed_title)
    /\ last_processed_title' = current_title
    /\ song_changes' = song_changes + 1
    /\ monitor_pc' = "start_new_song"
    /\ full_lyrics' = None
    /\ monitor_trace' = <<>>
    /\ UNCHANGED <<storeVars, tasks, handler_pc, lyric_line, handler_song_title,
                   visual_sentence>>

\* start_new_song, lines 45-46: the lock is taken and the pointer is set
start_new_song_set_pointer ==
    /\ monitor_pc = "start_new_song"
    /\ lock = None
    /\ lock' = Acquire("monitor")
    /\ SetCurrentSong(last_processed_title)
    /\ monitor_pc' = "replace_table"
    /\ UNCHANGED <<song_data, last_processed_title, song_changes, tasks,
                   handler_pc, lyric_line, handler_song_title, visual_sentence,
                   full_lyrics, monitor_trace>>

\* start_new_song, line 48: the table is replaced and the lock is released
start_new_song_replace_table ==
    /\ monitor_pc = "replace_table"
    /\ ClearSongTable(last_processed_title)
    /\ lock' = None
    /\ monitor_pc' = "get_fullscreen_lyrics"
    /\ monitor_trace' = Append(monitor_trace, "start_new_song")
    /\ UNCHANGED <<current_song_title, last_processed_title, song_changes, tasks,
                   handler_pc, lyric_line, handler_song_title, visual_sentence,
                   full_lyrics>>

LyricsFetchedAlways(fetched) == TRUE

\* if full_lyrics, line 178
LyricsFetched(fetched) == fetched # <<>>

\* main.py, lines 176-184: the lyrics are fetched and, when there are some, an
\* analysis task is launched with add_analysis_line as its callback
get_fullscreen_lyrics(fetched) ==
    /\ monitor_pc = "get_fullscreen_lyrics"
    /\ full_lyrics' = fetched
    /\ tasks' = IF LyricsFetched(fetched)
                THEN Append(tasks, [song_title |-> last_processed_title,
                                    total_items_processed |-> 0])
                ELSE tasks
    /\ monitor_trace' =
         monitor_trace \o <<"get_fullscreen_lyrics">>
         \o (IF LyricsFetched(fetched)
             THEN <<"analyze_lyrics_in_background">> ELSE <<>>)
    /\ monitor_pc' = "poll"
    /\ UNCHANGED <<storeVars, last_processed_title, song_changes, handler_pc,
                   lyric_line, handler_song_title, visual_sentence>>

\* the n-th task passes its next record to storage_callback, which is
\* add_analysis_line (llm_analysis.py, line 229)
storage_callback(n) ==
    /\ tasks[n].total_items_processed < Len(SongLines)
    /\ lock = None
    /\ LET parsed_data ==
             [lyric |-> SongLines[tasks[n].total_items_processed + 1],
              sentence |-> TagOf(tasks[n].song_title, n)]
       IN  IF AddAccepted(parsed_data)
           THEN StoreSentence(parsed_data)
           ELSE UNCHANGED song_data
    /\ tasks' = [tasks EXCEPT ![n].total_items_processed = @ + 1]
    /\ UNCHANGED <<current_song_title, lock, monitor_pc, last_processed_title,
                   song_changes, handler_pc, lyric_line, handler_song_title,
                   visual_sentence, full_lyrics, monitor_trace>>

\* handle_new_lyric, lines 99-103: the current song is read
handle_new_lyric(new_line) ==
    /\ handler_pc = "idle"
    /\ lock = None
    /\ lyric_line' = new_line
    /\ handler_song_title' = current_song_title
    /\ visual_sentence' = None
    /\ handler_pc' = IF Truthy(current_song_title)
                     THEN "find_analysis_by_lyric" ELSE "idle"
    /\ UNCHANGED <<storeVars, monitor_pc, last_processed_title, song_changes,
                   tasks, full_lyrics, monitor_trace>>

\* handle_new_lyric, line 111: the tag of the line is looked up
handle_new_lyric_find ==
    /\ handler_pc = "find_analysis_by_lyric"
    /\ lock = None
    /\ visual_sentence' = FindAnalysis(song_data, handler_song_title, lyric_line)
    /\ handler_pc' = "idle"
    /\ UNCHANGED <<storeVars, monitor_pc, last_processed_title, song_changes,
                   tasks, lyric_line, handler_song_title, full_lyrics,
                   monitor_trace>>

\* main.py, lines 168-170, and song_info.py, lines 111-114: the poll returns
\* no title, or the title of the poll before: the condition of line 170 fails
\* and the iteration ends
poll_without_change(new_title) ==
    /\ monitor_pc = "poll"
    /\ ~TitleChanged(new_title, last_processed_title)
    /\ observed_titles' = <<observed_titles[2], new_title>>
    /\ UNCHANGED <<storeVars, pipelineVars>>

\* the number of start_new_song calls that have replaced a table
StartCount ==
    CHOOSE n \in 0..MaxSongChanges :
        /\ \A t \in Titles : last_start[t] <= n
        /\ n = 0 \/ \E t \in Titles : last_start[t] = n

\* the entries the step has put into the store or given another sentence
EntriesWritten ==
    {[table |-> e[1], key |-> e[2], sentence |-> song_data'[e[1]][e[2]],
      current |-> current_song_title, epoch |-> StartCount] :
        e \in {tk \in Titles \X NormalizedSongLines :
                 /\ tk[1] \in DOMAIN song_data'
                 /\ tk[2] \in DOMAIN song_data'[tk[1]]
                 /\ \/ tk[1] \notin DOMAIN song_data
                    \/ tk[2] \notin DOMAIN song_data[tk[1]]
                    \/ song_data[tk[1]][tk[2]] # song_data'[tk[1]][tk[2]]}}

\* the history of the step: the entries written, and the rank of the
\* start_new_song call that has replaced a table
RecordHistory ==
    /\ writes' = writes \cup EntriesWritten
    /\ last_start' =
         IF monitor_pc = "replace_table" /\ monitor_pc' # "replace_table"
         THEN [last_start EXCEPT ![last_processed_title] = StartCount + 1]
         ELSE last_start

Next ==
    /\ \/ \E current_title \in Titles :
             /\ update_song_title(current_title)
             /\ observed_titles' = <<observed_titles[2], current_title>>
       \/ \E new_title \in Titles \cup {<<>>, None} :
             poll_without_change(new_title)
       \/ /\ \/ start_new_song_set_pointer
             \/ start_new_song_replace_table
             \/ \E fetched \in {<<>>, SongLines} : get_fullscreen_lyrics(fetched)
             \/ \E n \in 1..Len(tasks) : storage_callback(n)
             \/ \E new_line \in {SongLines[i] : i \in 1..Len(SongLines)} :
                   handle_new_lyric(new_line)
             \/ handle_new_lyric_find
          /\ UNCHANGED observed_titles
    /\ RecordHistory
    /\ UNCHANGED <<clientVars, parserVars, retryVars, searchVars, handlerVars,
                   appVars, previous_call, sourceVars, stateVars>>

Spec == Init /\ [][Next]_vars

(***************************************************************************)
(* Claims about the running application, checked under Spec.               *)
(***************************************************************************)

\* C1, as stated: when start_new_song(B) is called while the task launched for
\* song A is still running, no later write of A's task can be seen under B:
\* a tag that find_analysis_by_lyric returns to the line-change handler for
\* its song was never produced by the task of another song.
C1_StaleWritesUnobservable ==
    (handler_pc = "idle" /\ visual_sentence # None) =>
        TagTitle(visual_sentence) = handler_song_title

\* start_new_song(S) has set the pointer to S and has not replaced the table
\* of S, which holds the entries it had before the call
Torn ==
    /\ monitor_pc = "replace_table"
    /\ current_song_title = last_processed_title
    /\ HasEntries(last_processed_title)

\* a call of get_current_song_title, find_analysis_by_lyric or
\* add_analysis_line by another thread runs its locked region
StoreAccessByOthers ==
    \/ \E new_line \in {SongLines[i] : i \in 1..Len(SongLines)} :
          handle_new_lyric(new_line)
    \/ handle_new_lyric_find
    \/ \E n \in 1..Len(tasks) : storage_callback(n)

\* C5: start_new_song(S) sets the pointer and replaces the table of S as one
\* atomic step: while the pointer is S and the table of S still holds its
\* entries from before the call, no get_current_song_title,
\* find_analysis_by_lyric or add_analysis_line of another thread runs, so no
\* reader sees the pointer at S together with these entries; when the call
\* lets go of the lock the pointer is S and the table of S is empty.
C5_StartNewSongAtomic ==
    [][/\ Torn => ~StoreAccessByOthers
       /\ start_new_song_replace_table =>
             /\ current_song_title' = last_processed_title
             /\ song_data'[last_processed_title] = EmptyDict]_vars

\* start_new_song(S) is between its two assignments, the table of S holds
\* entries from the time S was current before, and the line-change handler,
\* which has read S as the current song, is about to look a line up in it
\* while an analysis task still has records to store
C5_Witness ==
    /\ Torn
    /\ handler_pc = "find_analysis_by_lyric"
    /\ handler_song_title = last_processed_title
    /\ \E n \in 1..Len(tasks) : tasks[n].total_items_processed < Len(SongLines)

\* C34: whenever no call is inside its locked region and the pointer is set,
\* the store has a table for the song it points to; no step of any thread
\* makes a pointer that is set absent again, and none removes the table of
\* any song from the store.
C34_PointerHasTableNothingRemoved ==
    /\ [](lock = None /\ current_song_title # None
            => current_song_title \in DOMAIN song_data)
    /\ [][/\ current_song_title # None => current_song_title' # None
          /\ DOMAIN song_data \subseteq DOMAIN song_data']_vars

\* song B is current after song A, no call is in its locked region, and the
\* store has the table of B and still the table of A with its entries
C34_Witness ==
    /\ lock = None
    /\ current_song_title = SongB
    /\ last_start[SongA] > 0
    /\ SongB \in DOMAIN song_data
    /\ HasEntries(SongA)

\* C35: every entry was written into the table of the song that was current
\* at the moment of the write; and a tag that find_analysis_by_lyric returns
\* for a song S and a line was written under the key of that line while S
\* was current, not before the last start_new_song(S).
C35_TagProvenance ==
    /\ \A w \in writes : w.table = w.current
    /\ \A t \in Titles : \A i \in DOMAIN SongLines :
          FindAnalysis(song_data, t, SongLines[i]) # None =>
              \E w \in writes :
                  /\ w.table = t
                  /\ w.current = t
                  /\ w.key = NormalizeLyric(SongLines[i])
                  /\ w.sentence = FindAnalysis(song_data, t, SongLines[i])
                  /\ last_start[t] > 0
                  /\ w.epoch >= last_start[t]

\* song A has been started twice; a tag is found for a line of A, written
\* after its second start, and another was written for the same line before
\* that start
C35_Witness ==
    /\ lock = None
    /\ FindAnalysis(song_data, SongA, SongLines[1]) # None
    /\ \E w \in writes :
          /\ w.table = SongA
          /\ w.key = NormalizeLyric(SongLines[1])
          /\ w.epoch < last_start[SongA]
    /\ \E w \in writes :
          /\ w.table = SongA
          /\ w.key = NormalizeLyric(SongLines[1])
          /\ w.epoch >= last_start[SongA]
          /\ w.sentence = FindAnalysis(song_data, SongA, SongLines[1])

\* the number of times the loop has made the call for the last new title
TimesCalled(name) ==
    Cardinality({i \in DOMAIN monitor_trace : monitor_trace[i] = name})

\* C37: a title that a poll returns is the last one processed, so the loop
\* enters start_new_song only after a poll whose title differs from that of
\* the poll before; for one new title it calls start_new_song at most once
\* and launches at most one task, and no more tables are replaced or tasks
\* launched than title changes were detected; a table that has entries
\* loses them only in the one start_new_song call made for a new title.
C37_OneStartAndTaskPerChange ==
    /\ [](/\ Truthy(observed_titles[2]) =>
                observed_titles[2] = last_processed_title
          /\ TimesCalled("start_new_song") <= 1
          /\ TimesCalled("analyze_lyrics_in_background") <= 1
          /\ StartCount <= song_changes
          /\ Len(tasks) <= song_changes)
    /\ [][/\ monitor_pc = "poll" /\ monitor_pc' = "start_new_song" =>
                /\ Truthy(observed_titles'[2])
                /\ observed_titles'[2] # observed_titles'[1]
          /\ \A t \in Titles :
                HasEntries(t) /\ (t \notin DOMAIN song_data'
                                  \/ song_data'[t] = EmptyDict) =>
                    /\ monitor_pc = "replace_table"
                    /\ t = last_processed_title
                    /\ monitor_trace = <<>>]_vars

\* song A has been polled again after its task stored its entries: the poll
\* has changed nothing, the one task of A is the only one and the table of A
\* has kept its entries
C37_Witness ==
    /\ monitor_pc = "poll"
    /\ observed_titles = <<SongA, SongA>>
    /\ last_processed_title = SongA
    /\ song_changes = 1
    /\ Len(tasks) = 1
    /\ tasks[1].total_items_processed = Len(SongLines)
    /\ StartCount = 1
    /\ HasEntries(SongA)

(***************************************************************************)
(* SpecRetry: one call of analyze_lyrics_in_background and the analysis    *)
(* thread it starts (_perform_analysis_thread).  Each request either       *)
(* returns a stream or raises; a stream delivers the reply in fragments of *)
(* FragmentLen characters and may raise before any of them.  The           *)
(* exceptions are taken by the except clause that catches them.  Delays    *)
(* are counted in units of 1/255 second, the grain of the jitter.          *)
(***************************************************************************)
MAX_RETRIES == 3
INITIAL_RETRY_DELAY_SECONDS == 2
MAX_RETRY_DELAY_SECONDS == 16

\* the units of a second: the jitter is os.urandom(1)[0] / 255.0
DelayUnit == 255

\* the values of os.urandom(1)[0] taken: the least, the next and the greatest
UrandomBytes == {0, 1, 255}

FragmentLen == 20

\* the exceptions caught by the first except clause (lines 302-304)
TransientErrors == {"ServiceUnavailable", "ResourceExhausted", "DeadlineExceeded"}

\* another google.api_core GoogleAPIError, and an exception of no such class
ServiceErrors == TransientErrors \cup {"GoogleAPIError", "Exception"}

\* the replies of the service: two complete sections, or a section without a
\* SENTENCE line and a complete one
RetryReplies == {<<Complete, Complete>>, <<LyricOnly, Complete>>}

Min(a, b) == IF a <= b THEN a ELSE b

\* str.isspace
IsSpace(s) == s # <<>> /\ \A i \in 1..Len(s) : s[i] \in Whitespace

\* A mutant of the check of the lyrics: whitespace counts as lyrics.
LyricsGivenUnlessEmpty(lyrics) == lyrics # <<>>

\* analyze_lyrics_in_background, line 344, negated
LyricsGiven(lyrics) == lyrics # <<>> /\ ~IsSpace(lyrics)

\* A mutant of the except clauses: every exception is retried.
RetriableAlways(e) == TRUE

\* the except clause that takes the exception is the first (lines 302-304)
Retriable(e) == e \in TransientErrors

\* A mutant of line 306: the task sleeps after every transient failure.
AttemptsLeftAlways(n) == TRUE

\* line 306: attempt < MAX_RETRIES
AttemptsLeft(n) == n < MAX_RETRIES

\* line 284: for attempt in range(MAX_RETRIES + 1) has a value after n
RangeHasNext(n) == n + 1 < MAX_RETRIES + 1

\* A mutant of line 308: the task does not sleep.
time_sleep_skipped(seconds) == sleeps

\* line 308: time.sleep(current_delay)
time_sleep(seconds) == Append(sleeps, seconds)

\* A mutant of line 310: the delay is not capped.
NextDelayUncapped(delay, byte) == delay * 2 + byte

\* line 310: min(current_delay * 2 + (os.urandom(1)[0] / 255.0),
\* MAX_RETRY_DELAY_SECONDS)
NextDelay(delay, byte) ==
    Min(delay * 2 + byte, MAX_RETRY_DELAY_SECONDS * DelayUnit)

\* A mutant of the except clauses: the failure takes back the song's entries.
StoreRolledBack == DictSet(song_data, current_song_title, EmptyDict)

\* lines 302-324: the store after an except clause has run
StoreAfterFailure == song_data

RetryInit ==
    /\ song_data = DictSet(EmptyDict, SongA, EmptyDict)
    /\ current_song_title = SongA
    /\ lock = None
    /\ line = <<>>
    /\ call = NoCall
    /\ candidates \in RetryReplies
    /\ chunk_stream = <<>>
    /\ buffer = <<>>
    /\ total_items_processed = 0
    /\ forwarded = <<>>
    /\ stream_pc = "returned"
    /\ cut_in_sentinel = FALSE
    /\ cut_in_prefix = FALSE
    /\ final_candidates = <<>>
    /\ section_lines = <<>>
    /\ parsed = <<>>
    /\ callback_raises = {}
    /\ PipelineIdle
    /\ cleaned_lyrics \in {<<>>, <<" ">>, <<"x">>}
    /\ client \in BOOLEAN
    /\ analysis_status = ""
    /\ retry_pc = "idle"
    /\ attempt = 0
    /\ current_delay = 0
    /\ sleeps = <<>>
    /\ requests = 0
    /\ errors = <<>>
    /\ SearchIdle
    /\ HandlerIdle
    /\ AppIdle
    /\ AuxIdle

\* analyze_lyrics_in_background, lines 334-359: the checks and the start of
\* the thread; without a thread the call returns at once
analyze_lyrics_in_background(thread_starts) ==
    /\ retry_pc = "idle"
    /\ analysis_status = ""
    /\ analysis_status' =
         IF ~LyricsGiven(cleaned_lyrics) THEN "No lyrics provided"
         ELSE IF ~client THEN "LLM Client not ready"
         ELSE IF thread_starts THEN ""
         ELSE "Error starting analysis"
    /\ retry_pc' =
         IF LyricsGiven(cleaned_lyrics) /\ client /\ thread_starts
         THEN "started" ELSE "idle"
    /\ UNCHANGED <<storeVars, parserVars, cleaned_lyrics, client, attempt,
                   current_delay, sleeps, requests, errors>>

\* analyze_lyrics_in_background, line 360: the call returns after
\* analysis_thread.start(), wherever the thread is by then
analysis_started_returned ==
    /\ retry_pc # "idle"
    /\ analysis_status = ""
    /\ analysis_status' = "Analysis started in background"
    /\ UNCHANGED <<storeVars, parserVars, cleaned_lyrics, client, retry_pc,
                   attempt, current_delay, sleeps, requests, errors>>

\* _perform_analysis_thread, lines 269-284: up to the retry loop
perform_analysis_thread ==
    /\ retry_pc = "started"
    /\ IF ~client
       THEN retry_pc' = "Failed" /\ UNCHANGED <<attempt, current_delay>>
       ELSE /\ retry_pc' = "request"
            /\ attempt' = 0
            /\ current_delay' = INITIAL_RETRY_DELAY_SECONDS * DelayUnit
    /\ UNCHANGED <<storeVars, parserVars, cleaned_lyrics, client,
                   analysis_status, sleeps, requests, errors>>

\* A mutant of line 184: the buffer outlives the call of _process_stream.
BufferKept(left_over) == left_over

\* _process_stream, line 184: buffer = "", whatever an earlier call left
BufferAtEntry(left_over) == <<>>

\* lines 285-295: generate_content returns a stream and _process_stream is
\* entered (lines 182-187)
generate_content ==
    /\ retry_pc = "request"
    /\ requests' = requests + 1
    /\ chunk_stream' = ReplyText(candidates, 1)
    /\ buffer' = BufferAtEntry(buffer)
    /\ total_items_processed' = 0
    /\ forwarded' = <<>>
    /\ final_candidates' = <<>>
    /\ stream_pc' = "reading"
    /\ retry_pc' = "stream"
    /\ UNCHANGED <<storeVars, candidates, cut_in_sentinel, cut_in_prefix,
                   section_lines, parsed, callback_raises,
                   cleaned_lyrics, client, analysis_status, attempt,
                   current_delay, sleeps, errors>>

\* _process_stream takes the next fragment of the stream
next_chunk ==
    /\ retry_pc = "stream"
    /\ chunk_stream # <<>>
    /\ ReadChunk(Min(FragmentLen, Len(chunk_stream)))
    /\ UNCHANGED <<current_song_title, lock, retryVars>>

\* lines 295-299: _process_stream returns and the retry loop is left
process_stream_returns ==
    /\ retry_pc = "stream"
    /\ EndOfStream
    /\ retry_pc' = "Success"
    /\ UNCHANGED <<current_song_title, lock, cleaned_lyrics, client,
                   analysis_status, attempt, current_delay, sleeps, requests,
                   errors>>

\* lines 302-324: generate_content, or the stream while _process_stream
\* iterates over it, raises e, and the except clause for e runs
service_raises(e, byte) ==
    /\ \/ retry_pc = "request"
       \/ retry_pc = "stream" /\ stream_pc = "reading"
    /\ requests' = IF retry_pc = "request" THEN requests + 1 ELSE requests
    /\ errors' = Append(errors, e)
    /\ stream_pc' = IF retry_pc = "stream" THEN "raised" ELSE stream_pc
    /\ IF Retriable(e) /\ AttemptsLeft(attempt)
       THEN /\ sleeps' = time_sleep(current_delay)
            /\ current_delay' = NextDelay(current_delay, byte)
       ELSE UNCHANGED <<sleeps, current_delay>>
    /\ IF Retriable(e) /\ RangeHasNext(attempt)
       THEN attempt' = attempt + 1 /\ retry_pc' = "request"
       ELSE attempt' = attempt /\ retry_pc' = "Failed"
    /\ song_data' = StoreAfterFailure
    /\ UNCHANGED <<current_song_title, lock, candidates, chunk_stream, buffer,
                   total_items_processed, forwarded, cut_in_sentinel,
                   cut_in_prefix, final_candidates, section_lines, parsed,
                   callback_raises,
                   cleaned_lyrics, client, analysis_status>>

RetryNext ==
    /\ \/ \E thread_starts \in BOOLEAN : analyze_lyrics_in_background(thread_starts)
       \/ analysis_started_returned
       \/ perform_analysis_thread
       \/ generate_content
       \/ \E e \in ServiceErrors, byte \in UrandomBytes : service_raises(e, byte)
       \/ process_stream_returns
       \/ next_chunk
    /\ UNCHANGED <<clientVars, pipelineVars, searchVars, handlerVars, appVars,
                   auxVars>>

SpecRetry == RetryInit /\ [][RetryNext]_vars

(***************************************************************************)
(* Claims about the analysis task, checked under SpecRetry.                *)
(***************************************************************************)

\* C13: when the service has failed on the first two attempts, transiently,
\* and the third has succeeded, the task has slept exactly two delays, each
\* at most MAX_RETRY_DELAY_SECONDS, has made three requests, and has passed
\* all the records of the successful stream to the storage callback, which
\* has stored them.
C13_TwoFailuresThenSuccess ==
    (retry_pc = "Success" /\ Len(errors) = 2) =>
        /\ \A i \in 1..2 : errors[i] \in TransientErrors
        /\ Len(sleeps) = 2
        /\ \A i \in 1..2 : sleeps[i] <= MAX_RETRY_DELAY_SECONDS * DelayUnit
        /\ requests = 3
        /\ forwarded = WellFormedRecords(candidates, Len(candidates))
        /\ \A i \in 1..Len(forwarded) :
              FindAnalysis(song_data, current_song_title, forwarded[i].lyric)
                  = forwarded[i].sentence

\* the service was unavailable, then out of quota, the second time after a
\* part of the stream had arrived, and the third stream gave both records
C13_Witness ==
    /\ retry_pc = "Success"
    /\ errors = <<"ServiceUnavailable", "ResourceExhausted">>
    /\ Len(sleeps) = 2
    /\ candidates = <<Complete, Complete>>
    /\ forwarded = <<RecordOf(1), RecordOf(2)>>

\* the text that the stream of the attempt under way has delivered
Received ==
    SubSeq(ReplyText(candidates, 1), 1,
           Len(ReplyText(candidates, 1)) - Len(chunk_stream))

\* C39: the buffer is per attempt.  While the stream of an attempt is read,
\* the first or a later one, the request for it is a new one and the buffer
\* holds only text of that stream, the end of what it has delivered; when
\* _process_stream has returned, the records passed on are those of the
\* reply, whatever a failed attempt had left in its buffer.
C39_BufferPerAttempt ==
    /\ retry_pc = "stream" =>
          /\ requests = Len(errors) + 1
          /\ Len(buffer) <= Len(Received)
          /\ buffer = SubSeq(Received, Len(Received) - Len(buffer) + 1,
                             Len(Received))
    /\ retry_pc = "Success" =>
          forwarded = WellFormedRecords(candidates, Len(candidates))

\* a retry has just entered _process_stream, with an empty buffer and
\* nothing read yet, after an attempt whose stream failed transiently when
\* it had delivered enough for the first record to be stored
C39_Witness ==
    /\ retry_pc = "stream"
    /\ attempt = 1
    /\ requests = 2
    /\ errors = <<"ServiceUnavailable">>
    /\ chunk_stream = ReplyText(candidates, 1)
    /\ buffer = <<>>
    /\ forwarded = <<>>
    /\ candidates = <<Complete, Complete>>
    /\ FindAnalysis(song_data, current_song_title, RecordOf(1).lyric)
          = RecordOf(1).sentence
    /\ FindAnalysis(song_data, current_song_title, RecordOf(2).lyric) = None

\* SpecRetry with the analysis thread scheduled for as long as it has a step
\* to take: it is a thread of its own (line 353) and nothing it waits for is
\* withheld for ever (a stream is finite and ends or raises)
SpecRetryFair == SpecRetry /\ WF_vars(RetryNext)

\* the requests, sleeps and failures of the task so far are within the caps,
\* and every failure but the one that ends the task was followed by a sleep
AttemptsWithinCaps ==
    /\ requests <= MAX_RETRIES + 1
    /\ Len(sleeps) <= MAX_RETRIES
    /\ Len(sleeps) = attempt
    /\ Len(errors) = IF retry_pc = "Failed" /\ errors # <<>>
                     THEN Len(sleeps) + 1 ELSE Len(sleeps)

\* C14: whatever the service does, the task makes at most MAX_RETRIES + 1
\* requests and sleeps at most MAX_RETRIES times, never after the failure of
\* its last attempt, and once started it reaches Success or Failed.
C14_BoundedAttemptsAndEnd ==
    /\ []AttemptsWithinCaps
    /\ (retry_pc = "started") ~> (retry_pc \in {"Success", "Failed"})

\* four requests have failed transiently: the task has slept three times and
\* has ended without a fourth sleep
C14_Witness ==
    /\ retry_pc = "Failed"
    /\ requests = MAX_RETRIES + 1
    /\ Len(errors) = MAX_RETRIES + 1
    /\ \A i \in 1..Len(errors) : errors[i] \in TransientErrors
    /\ Len(sleeps) = MAX_RETRIES

\* the service has just raised an exception
Raised == errors' # errors

\* C15: after an exception the task goes to another request only when the
\* exception is ServiceUnavailable, ResourceExhausted or DeadlineExceeded and
\* attempts remain; after any other exception it ends in Failed, and once in
\* Failed it makes no further request.
C15_RetryOnlyOnTransient ==
    [][/\ Raised =>
            IF errors'[Len(errors')] \in TransientErrors /\ attempt < MAX_RETRIES
            THEN retry_pc' = "request"
            ELSE retry_pc' = "Failed"
       /\ retry_pc = "Failed" => (retry_pc' = "Failed" /\ requests' = requests)
       /\ requests' > requests =>
            \A i \in 1..Len(errors) : errors[i] \in TransientErrors]_vars

\* after a transient failure and a retry, an API error that is not transient
\* has ended the task at its second request
C15_Witness ==
    /\ retry_pc = "Failed"
    /\ errors = <<"DeadlineExceeded", "GoogleAPIError">>
    /\ requests = 2
    /\ Len(sleeps) = 1

\* C16: the first delay slept is INITIAL_RETRY_DELAY_SECONDS, each next one
\* is min(2 * previous + jitter, MAX_RETRY_DELAY_SECONDS) for a jitter from 0
\* to 1 second, so the delays never decrease and all lie between the initial
\* delay and the cap, as does the delay the task holds for its next sleep.
C16_DelaysDoubleUpToCap ==
    LET lo == INITIAL_RETRY_DELAY_SECONDS * DelayUnit
        hi == MAX_RETRY_DELAY_SECONDS * DelayUnit
    IN  /\ sleeps # <<>> => sleeps[1] = lo
        /\ \A i \in 1..Len(sleeps) : lo <= sleeps[i] /\ sleeps[i] <= hi
        /\ \A i \in 2..Len(sleeps) :
              /\ sleeps[i - 1] <= sleeps[i]
              /\ \E jitter \in 0..DelayUnit :
                    sleeps[i] = Min(2 * sleeps[i - 1] + jitter, hi)
        /\ retry_pc \in {"request", "stream", "Success", "Failed"} /\ attempt > 0 =>
              /\ sleeps[Len(sleeps)] <= current_delay
              /\ current_delay <= hi

\* three delays have been slept, 2 s, 5 s and 11 s (the jitter at its
\* greatest), and the next delay has been cut to the cap
C16_Witness ==
    /\ sleeps = <<2 * DelayUnit, 5 * DelayUnit, 11 * DelayUnit>>
    /\ current_delay = MAX_RETRY_DELAY_SECONDS * DelayUnit

\* C17: the step in which the task ends in Failed leaves the store as it is:
\* every entry written before is still returned by find_analysis_by_lyric;
\* the step ends the thread and changes nothing of the song-change loop or
\* of the line-change handler.
C17_FailureKeepsPartialResults ==
    [][(retry_pc # "Failed" /\ retry_pc' = "Failed") =>
          /\ song_data' = song_data
          /\ \A i \in 1..Len(candidates) :
                FindAnalysis(song_data', current_song_title, LyricValue(i))
                    = FindAnalysis(song_data, current_song_title, LyricValue(i))
          /\ UNCHANGED <<current_song_title, pipelineVars>>]_vars

\* the task has ended in Failed on an exception raised by the stream after
\* the first record was stored, and the record is still found
C17_Witness ==
    /\ retry_pc = "Failed"
    /\ stream_pc = "raised"
    /\ candidates = <<Complete, Complete>>
    /\ FindAnalysis(song_data, current_song_title, <<"a">>) = <<"b">>
    /\ FindAnalysis(song_data, current_song_title, <<"c">>) = None

\* C18: analyze_lyrics_in_background returns its status whatever the thread
\* has done by then (its return is enabled from the start of the thread on),
\* and with empty or whitespace-only lyrics, or without a client, it returns
\* the reason and no thread is started and no request made.
C18_StatusWithoutWaiting ==
    /\ (retry_pc # "idle" /\ analysis_status = "") =>
            ENABLED analysis_started_returned
    /\ (cleaned_lyrics = <<>> \/ IsSpace(cleaned_lyrics)) =>
            /\ analysis_status \in {"", "No lyrics provided"}
            /\ retry_pc = "idle" /\ requests = 0
    /\ (~(cleaned_lyrics = <<>> \/ IsSpace(cleaned_lyrics)) /\ ~client) =>
            /\ analysis_status \in {"", "LLM Client not ready"}
            /\ retry_pc = "idle" /\ requests = 0
    /\ analysis_status = "Analysis started in background" => retry_pc # "idle"

\* the call has returned "Analysis started in background" while the thread
\* is reading the stream of its first request
C18_Witness ==
    /\ analysis_status = "Analysis started in background"
    /\ retry_pc = "stream"
    /\ requests = 1
    /\ chunk_stream # <<>>

(***************************************************************************)
(* ImageSearcher (image_searcher.py): the nearest-neighbour search over    *)
(* the loaded embeddings.                                                  *)
(*                                                                         *)
(* Vectors have small integer components.  A score is kept as the signed   *)
(* square of the cosine, times 4, which is an integer for these vectors    *)
(* and orders the rows exactly as the cosine does.  The epsilon added to   *)
(* the norms (lines 65 and 97) scales every row of one norm by one         *)
(* factor; in this set two rows of different norms have equal scores only  *)
(* when both scores are zero, so equal scores here are equal floats in    *)
(* the code.  A zero vector stays zero after the division (0 / 1e-8).      *)
(*                                                                         *)
(* np.argsort is called without kind, which is numpy's quicksort: not a    *)
(* stable sort.  The order in which it leaves equal scores is a property   *)
(* of the build, fixed for a run: argsort_ties ranks the rows, and of two  *)
(* rows with equal scores the one of lower rank comes first.  The identity *)
(* ranking is the stable sort.                                             *)
(***************************************************************************)
MaxIndexSize == 3
MaxTopK == 3

\* image_embeddings.shape[1]
EmbeddingDim == 2

Vectors == {<<1, 0>>, <<0, 1>>, <<1, 1>>, <<-1, 0>>, <<0, 0>>}

\* a query of another dimensionality
WrongDimVector == <<1, 0, 0>>

TextEmbeddings == Vectors \cup {WrongDimVector, None}

TopKs == 0 .. MaxTopK

RECURSIVE DotUpTo(_, _, _)
DotUpTo(u, v, n) ==
    IF n = 0 THEN 0 ELSE DotUpTo(u, v, n - 1) + u[n] * v[n]

\* np.dot of two vectors of EmbeddingDim components
Dot(u, v) == DotUpTo(u, v, EmbeddingDim)

NormSq(v) == Dot(v, v)

\* np.dot(normalized_text_embedding, normalized row): lines 96-102 and 63-65
Similarity(q, v) ==
    LET d == Dot(q, v)
    IN  IF NormSq(q) = 0 \/ NormSq(v) = 0 THEN 0
        ELSE (IF d < 0 THEN 0 - 1 ELSE 1) * ((4 * d * d) \div (NormSq(q) * NormSq(v)))

\* similarities, line 102
Similarities(q) ==
    [i \in 1 .. Len(image_embeddings) |-> Similarity(q, image_embeddings[i])]

\* np.argsort(similarities), line 109: ascending scores, equal scores in the
\* order of argsort_ties
Argsort(similarities) ==
    LET n == Len(similarities)
        Before(i, j) ==
            \/ similarities[i] < similarities[j]
            \/ similarities[i] = similarities[j] /\ argsort_ties[i] < argsort_ties[j]
        Position(i) == 1 + Cardinality({j \in 1 .. n : Before(j, i)})
    IN  [p \in 1 .. n |-> CHOOSE i \in 1 .. n : Position(i) = p]

\* a[-k:], line 109: Python's slice from index -k, which is index 0 when
\* k is 0
LastK(a, k) ==
    LET n == Len(a)
        start == IF 0 - k < 0
                 THEN (IF n - k < 0 THEN 0 ELSE n - k)
                 ELSE (IF 0 - k > n THEN n ELSE 0 - k)
    IN  [i \in 1 .. n - start |-> a[start + i]]

\* a[::-1], line 109
Reversed(a) == [i \in 1 .. Len(a) |-> a[Len(a) + 1 - i]]

\* top_k_indices, line 109 (rows are numbered from 1 here)
TopKIndices(similarities, k) == Reversed(LastK(Argsort(similarities), k))

\* the loop of lines 112-118: a row without a path is skipped
RECURSIVE CollectResults(_, _)
CollectResults(indices, similarities) ==
    IF indices = <<>> THEN <<>>
    ELSE LET i == Head(indices)
             rest == CollectResults(Tail(indices), similarities)
         IN  IF i <= Len(image_paths)
             THEN <<(<<image_paths[i], similarities[i]>>)>> \o rest
             ELSE rest

\* after ImageSearcher.__init__: any loaded array, any number of paths
\* (_load_data only warns when the two lengths differ, lines 51-53); the
\* i-th path is identified by i
SearchInit ==
    /\ song_data = EmptyDict
    /\ current_song_title = None
    /\ lock = None
    /\ line = <<>>
    /\ call = NoCall
    /\ ParserIdle
    /\ PipelineIdle
    /\ RetryIdle
    /\ \E n \in 0 .. MaxIndexSize :
          /\ image_embeddings \in [1 .. n -> Vectors]
          /\ argsort_ties \in Permutations(1 .. n)
    /\ \E p \in 0 .. MaxIndexSize : image_paths = [i \in 1 .. p |-> i]
    /\ text_embedding = None
    /\ top_k = 0
    /\ results = <<>>
    /\ search_returned = "not called"
    /\ first_search = NoSearch
    /\ HandlerIdle
    /\ AppIdle
    /\ AuxIdle

\* what search returns, lines 84-126: None for an absent query (lines 87-89)
\* and when np.dot raises ValueError on a query of another dimensionality
\* (caught at line 124), the list of pairs otherwise
SearchExceptReraises == "raised"

\* except Exception: return None, lines 124-126
SearchExcept == "None"

SearchReturns(q, k) ==
    IF q = None
    THEN [returned |-> "None", results |-> <<>>]
    ELSE IF Len(q) # EmbeddingDim
    THEN [returned |-> SearchExcept, results |-> <<>>]
    ELSE LET similarities == Similarities(q)
         IN  [returned |-> "list",
              results |-> CollectResults(TopKIndices(similarities, k),
                                         similarities)]

IndexReversedAfterSearch == Reversed(image_embeddings)

\* self.image_embeddings after a search: search assigns only to its locals
\* (reshape and the division make new arrays, lines 93-97)
IndexAfterSearch == image_embeddings

\* ImageSearcher.search, lines 71-126
search(q, k) ==
    /\ text_embedding' = q
    /\ top_k' = k
    /\ LET ret == SearchReturns(q, k)
       IN  /\ results' = ret.results
           /\ search_returned' = ret.returned
    /\ image_embeddings' = IndexAfterSearch
    /\ UNCHANGED <<image_paths, argsort_ties>>

SearchNext ==
    /\ \E q \in TextEmbeddings, k \in TopKs : search(q, k)
    /\ UNCHANGED <<storeVars, clientVars, parserVars, pipelineVars, retryVars,
                   first_search, handlerVars, appVars, auxVars>>

SpecSearch == SearchInit /\ [][SearchNext]_vars

\* the scores of the returned pairs never increase along the list
ScoresDescending ==
    \A a, b \in DOMAIN results : a < b => results[a][2] >= results[b][2]

\* C19: for every query of the index's dimensionality, every k and every
\* index size, search returns at most k (identifier, score) pairs, with
\* scores in non-increasing order.
C19_AtMostKDescending ==
    search_returned = "list" => Len(results) <= top_k /\ ScoresDescending

\* the rows that have the best score for the last query
BestRows ==
    LET sims == Similarities(text_embedding)
    IN  {i \in DOMAIN sims : \A j \in DOMAIN sims : sims[j] <= sims[i]}

\* C20: rows with equal scores are returned in index order, lowest index
\* first; with k = 1 and several rows sharing the best score, the row that
\* comes first in the index is the one returned.
C20_TiesLowestIndexFirst ==
    (search_returned = "list" /\ top_k >= 1
        /\ Len(image_paths) = Len(image_embeddings)) =>
       /\ \A a, b \in DOMAIN results :
             (a < b /\ results[a][2] = results[b][2]) => results[a][1] < results[b][1]
       /\ (top_k = 1 /\ image_embeddings # <<>>) =>
             results = <<(<<CHOOSE i \in BestRows : \A j \in BestRows : i <= j,
                            Similarities(text_embedding)[
                                CHOOSE i \in BestRows : \A j \in BestRows : i <= j]>>)>>

(***************************************************************************)
(* Repeated searches: the same searcher is called again and again, and the *)
(* first call of the run is remembered with what it returned.              *)
(***************************************************************************)
RepeatQueries == {<<1, 0>>, <<0, 0>>, None}

RepeatTopKs == {1, MaxTopK}

\* a call of search, with the first call of the run recorded
search_recorded(q, k) ==
    /\ search(q, k)
    /\ first_search' =
         IF first_search = NoSearch
         THEN [q |-> q, k |-> k, returned |-> search_returned',
               results |-> results', later |-> 0]
         ELSE [first_search EXCEPT !.later = Min(@ + 1, 2)]

SearchRepeatNext ==
    /\ \E q \in RepeatQueries, k \in RepeatTopKs : search_recorded(q, k)
    /\ UNCHANGED <<storeVars, clientVars, parserVars, pipelineVars, retryVars,
                   handlerVars, appVars, auxVars>>

SpecSearchRepeat == SearchInit /\ [][SearchRepeatNext]_vars

\* the last call had the arguments of the first call of the run
SameCallAsFirst ==
    /\ first_search # NoSearch
    /\ text_embedding = first_search.q
    /\ top_k = first_search.k

C23_LoadedLengthsMatch ==
    Len(image_paths) = Len(image_embeddings)

(***************************************************************************)
(* SpecHandler: the line-change handler of main.py run as a whole, one     *)
(* event at a time, between calls that change the store and direct calls   *)
(* of search.  The embedding oracle is TextEmbeddingGenerator: its         *)
(* generate_embedding returns a vector, returns None (empty text, or an    *)
(* error after the tokenizer has run), or raises: when the tokenizer       *)
(* itself raises, `inputs` is unbound and the `del inputs` of the finally  *)
(* clause raises UnboundLocalError in place of the `return None`           *)
(* (text_embedding_generator.py, lines 52-76).                             *)
(***************************************************************************)
TOP_K_RESULTS == 1

\* generate_embedding raised
OracleRaised == <<"UnboundLocalError">>

\* what generate_embedding can do
OracleResults == {<<1, 0>>, <<0, 1>>, WrongDimVector, None, OracleRaised}

\* the line of the stored record, the same line in upper case, a line that
\* is normalized to nothing
HandlerLines == {<<"a">>, <<"A">>, <<"!">>}

HandlerInit ==
    /\ StoreInit
    /\ line = <<"a">>
    /\ call = NoCall
    /\ ParserIdle
    /\ PipelineIdle
    /\ RetryIdle
    /\ image_embeddings \in {<<>>, <<(<<1, 0>>)>>, <<(<<1, 0>>), (<<0, 1>>)>>}
    /\ argsort_ties \in Permutations(1 .. Len(image_embeddings))
    /\ \E p \in {0, Len(image_embeddings)} : image_paths = [i \in 1 .. p |-> i]
    /\ text_embedding = None
    /\ top_k = 0
    /\ results = <<>>
    /\ search_returned = "not called"
    /\ first_search = NoSearch
    /\ HandlerIdle
    /\ AppIdle
    /\ AuxIdle

EmbeddingUsableAlways(text_embedding_value) == TRUE

\* if text_embedding is not None, line 122
EmbeddingUsable(text_embedding_value) == text_embedding_value # None

\* handle_new_lyric, lines 88-147, from the call to the return (or to the
\* exception that leaves it); oracle is what generate_embedding does if it
\* is called
handle_lyric_event(new_line, oracle) ==
    LET title == current_song_title
        sentence == IF Truthy(title)
                    THEN FindAnalysis(song_data, title, new_line)
                    ELSE None
        embedded == Truthy(title) /\ Truthy(sentence)
        oracle_raised == embedded /\ oracle = OracleRaised
        searched == embedded /\ ~oracle_raised /\ EmbeddingUsable(oracle)
        ret == SearchReturns(oracle, TOP_K_RESULTS)
        search_raised == searched /\ ret.returned = "raised"
        found == searched /\ ~search_raised /\ ret.results # <<>>
    IN  /\ handler_pc = "idle"
        /\ lock = None
        /\ lyric_line' = new_line
        /\ handler_song_title' = title
        /\ visual_sentence' = sentence
        /\ handler_trace' =
             <<"get_current_song_title">>
             \o (IF Truthy(title) THEN <<"find_analysis_by_lyric">> ELSE <<>>)
             \o (IF embedded THEN <<"generate_embedding">> ELSE <<>>)
             \o (IF searched THEN <<"search">> ELSE <<>>)
             \o (IF found THEN <<"display_top_image">> ELSE <<>>)
        /\ handler_outcomes' =
             IF ~Truthy(title) THEN <<>>
             ELSE IF ~Truthy(sentence) THEN <<"pending">>
             ELSE IF oracle_raised THEN <<>>
             ELSE IF ~searched THEN <<"embedding failed">>
             ELSE IF search_raised THEN <<>>
             ELSE IF ~found THEN <<"no match">>
             ELSE <<"displayed">>
        /\ handler_embedding' =
             IF ~embedded THEN "not called"
             ELSE IF oracle = OracleRaised THEN "raised"
             ELSE IF oracle = None THEN "None"
             ELSE "vector"
        /\ handler_results' =
             IF ~searched THEN "not searched"
             ELSE IF ret.returned # "list" THEN ret.returned
             ELSE IF ret.results = <<>> THEN "empty"
             ELSE "pairs"
        /\ displayed' = IF found THEN ret.results[1][1] ELSE 0
        /\ IF searched
           THEN /\ text_embedding' = oracle
                /\ top_k' = TOP_K_RESULTS
                /\ results' = ret.results
                /\ search_returned' = ret.returned
                /\ image_embeddings' = IndexAfterSearch
           ELSE UNCHANGED <<text_embedding, top_k, results, search_returned,
                            image_embeddings>>
        /\ UNCHANGED <<storeVars, clientVars, monitor_pc, last_processed_title,
                       song_changes, tasks, handler_pc, full_lyrics,
                       monitor_trace, image_paths, argsort_ties, first_search,
                       appVars>>

HandlerNext ==
    /\ \/ /\ \E song_title \in Titles : start_new_song(song_title)
          /\ UNCHANGED <<pipelineVars, searchVars, handlerVars, appVars,
                         auxVars>>
       \/ /\ add_analysis_line([lyric |-> line, sentence |-> <<"s">>])
          /\ UNCHANGED <<pipelineVars, searchVars, handlerVars, appVars,
                         auxVars>>
       \/ /\ \E q \in {None, WrongDimVector, <<1, 0>>} : search(q, TOP_K_RESULTS)
          /\ UNCHANGED <<storeVars, clientVars, pipelineVars, first_search,
                         handlerVars, appVars, auxVars>>
       \/ /\ \E new_line \in HandlerLines, oracle \in OracleResults :
                handle_lyric_event(new_line, oracle)
          /\ UNCHANGED auxVars
    /\ UNCHANGED <<parserVars, retryVars>>

SpecHandler == HandlerInit /\ [][HandlerNext]_vars

\* the last search had no index entries, no query, or a query of another
\* dimensionality
NothingToSearch ==
    /\ search_returned # "not called"
    /\ \/ image_embeddings = <<>>
       \/ text_embedding = None
       \/ Len(text_embedding) # EmbeddingDim

\* C21: with an index of zero entries, an absent query or a query of another
\* dimensionality, search returns (it does not raise) and yields no results;
\* the line-change handler that gets no results surfaces 'no match', displays
\* nothing and returns.
C21_NoResultsIsNoMatch ==
    /\ NothingToSearch => (search_returned \in {"list", "None"} /\ results = <<>>)
    /\ handler_results \in {"None", "empty", "raised"} =>
          /\ handler_outcomes = <<"no match">>
          /\ displayed = 0
          /\ handler_trace[Len(handler_trace)] = "search"

\* the handler has passed a vector of another dimensionality to search and
\* has surfaced 'no match'
C21_Witness ==
    /\ handler_results = "None"
    /\ text_embedding = WrongDimVector
    /\ search_returned = "None"
    /\ handler_outcomes = <<"no match">>

HandlerCalled(name) == \E i \in DOMAIN handler_trace : handler_trace[i] = name

\* C24: a line-change event with a current song surfaces exactly one
\* outcome, by a strict chain: no tag gives 'pending', with no embedding
\* request and no search; a failed embedding gives 'embedding failed', with
\* no search; an empty search result gives 'no match'; otherwise the top
\* identifier is displayed.  With no current song nothing is surfaced and
\* neither the oracle nor the index is called.
C24_OneOutcomePerEvent ==
    handler_trace # <<>> =>
       IF ~Truthy(handler_song_title)
       THEN /\ handler_outcomes = <<>>
            /\ ~HandlerCalled("generate_embedding") /\ ~HandlerCalled("search")
       ELSE /\ Len(handler_outcomes) = 1
            /\ ~Truthy(visual_sentence) =>
                  /\ handler_outcomes = <<"pending">>
                  /\ ~HandlerCalled("generate_embedding") /\ ~HandlerCalled("search")
            /\ (Truthy(visual_sentence) /\ handler_embedding # "vector") =>
                  /\ handler_outcomes = <<"embedding failed">>
                  /\ ~HandlerCalled("search")
            /\ (Truthy(visual_sentence) /\ handler_embedding = "vector") =>
                  /\ HandlerCalled("search")
                  /\ handler_results \in {"None", "empty"} =>
                        handler_outcomes = <<"no match">> /\ displayed = 0
                  /\ handler_results = "pairs" =>
                        /\ handler_outcomes = <<"displayed">>
                        /\ HandlerCalled("display_top_image")
                        /\ displayed \in DOMAIN image_paths

(***************************************************************************)
(* Claims about the song-change loop, checked under Spec.                  *)
(***************************************************************************)
MonitorCallOrder ==
    <<"start_new_song", "get_fullscreen_lyrics", "analyze_lyrics_in_background">>

MonitorCalled(name) == \E i \in DOMAIN monitor_trace : monitor_trace[i] = name

\* C25: for each new, non-empty, changed title T the song-change loop calls
\* start_new_song(T) before it fetches the full text and before it launches
\* an analysis task for T, and it launches a task only when the fetched text
\* is not empty.
C25_StartNewSongThenFetchThenTask ==
    /\ [](/\ Len(monitor_trace) <= Len(MonitorCallOrder)
          /\ \A i \in DOMAIN monitor_trace : monitor_trace[i] = MonitorCallOrder[i]
          /\ MonitorCalled("start_new_song") =>
                /\ Truthy(last_processed_title)
                /\ current_song_title = last_processed_title
                /\ last_processed_title \in DOMAIN song_data
          /\ MonitorCalled("get_fullscreen_lyrics") => full_lyrics # None
          /\ MonitorCalled("analyze_lyrics_in_background") => Truthy(full_lyrics))
    /\ [][Len(tasks') > Len(tasks) =>
             /\ monitor_trace = <<"start_new_song">>
             /\ MonitorCalled("analyze_lyrics_in_background")'
             /\ tasks'[Len(tasks')].song_title = last_processed_title
             /\ Truthy(full_lyrics')]_vars

\* a task has been launched for the second title, after a title whose text
\* was empty
C25_Witness ==
    /\ song_changes = 2
    /\ Len(tasks) = 1
    /\ tasks[1].song_title = last_processed_title
    /\ monitor_trace = MonitorCallOrder

(***************************************************************************)
(* SpecApp: run_visualizer_app (main.py) with the two polling threads it   *)
(* starts, taken by their control flow: the while conditions, the except   *)
(* clauses and the stop flag.  What an iteration does to the store and the *)
(* searcher is in Spec and SpecHandler; here an iteration ends normally or *)
(* with an exception of one of the kinds the except clauses tell apart.    *)
(***************************************************************************)

\* what can go wrong in lines 210-225: GOOGLE_API_KEY is missing (line 212),
\* the index files are missing, a ValueError, any other exception before
\* SongInfo exists, an exception of SongInfo(...) or load_site
InitFailures ==
    {"none", "credentials", "FileNotFoundError", "ValueError", "Exception",
     "load_site"}

AfterInitStartsThreads(failure) == "start_title"

\* where run_visualizer_app goes after lines 210-239: sys.exit(1) raises
\* SystemExit, which no except clause of the function catches; the three
\* except clauses return
AfterInit(failure) ==
    IF failure = "none" THEN "start_title"
    ELSE IF failure = "credentials" THEN "exited"
    ELSE "returned"

\* how an iteration of the song-change loop ends (lines 167-194)
TitleOutcomes == {"ok", "task", "error", "invalid session id"}

\* how an iteration of the line-change loop ends (song_info.py, lines 181-216)
LyricOutcomes ==
    {"ok", "callback error", "StaleElementReferenceException",
     "NoSuchElementException", "error", "invalid session id"}

IsException(outcome) == outcome \notin {"ok", "task", "callback error"}

LoopGoesOnAlways == TRUE

\* while not stop_event.is_set(): main.py line 161, song_info.py line 178
LoopGoesOn == ~stop_event

\* main.py, lines 189-190: the break of the except clause
TitleBreaks(outcome) == stop_event /\ outcome = "invalid session id"

\* song_info.py, lines 210-214: the break of the except clause
LyricBreaks(outcome) == outcome = "invalid session id"

AppInit ==
    /\ StoreInit
    /\ line = <<>>
    /\ call = NoCall
    /\ ParserIdle
    /\ PipelineIdle
    /\ RetryIdle
    /\ SearchIdle
    /\ HandlerIdle
    /\ AppIdle
    /\ AuxIdle

\* run_visualizer_app, lines 210-239
initialize(failure) ==
    /\ app_pc = "init"
    /\ init_failure' = failure
    /\ app_pc' = AfterInit(failure)
    /\ driver' = (failure = "none")
    /\ UNCHANGED <<stop_event, title_thread, lyric_thread, title_exit,
                   lyric_exit, join_warnings, task_launched>>

\* lines 245-251: the thread is appended to threads and started; start()
\* can raise, which leads to the finally clause
start_title_thread(started) ==
    /\ app_pc = "start_title"
    /\ title_thread' = IF started THEN "check" ELSE "unstarted"
    /\ app_pc' = IF started THEN "start_lyric" ELSE "shutdown"
    /\ UNCHANGED <<init_failure, stop_event, lyric_thread, title_exit,
                   lyric_exit, join_warnings, driver, task_launched>>

\* lines 253-260
start_lyric_thread(started) ==
    /\ app_pc = "start_lyric"
    /\ lyric_thread' = IF started THEN "enter" ELSE "unstarted"
    /\ app_pc' = IF started THEN "running" ELSE "shutdown"
    /\ UNCHANGED <<init_failure, stop_event, title_thread, title_exit,
                   lyric_exit, join_warnings, driver, task_launched>>

\* lines 266-272: KeyboardInterrupt or another exception ends the wait
interrupt ==
    /\ app_pc = "running"
    /\ app_pc' = "shutdown"
    /\ UNCHANGED <<init_failure, stop_event, title_thread, lyric_thread,
                   title_exit, lyric_exit, join_warnings, driver, task_launched>>

\* line 275
set_stop_event ==
    /\ app_pc = "shutdown"
    /\ stop_event' = TRUE
    /\ app_pc' = "join_title"
    /\ UNCHANGED <<init_failure, title_thread, lyric_thread, title_exit,
                   lyric_exit, join_warnings, driver, task_launched>>

Alive(thread) == thread \notin {"unstarted", "stopped"}

\* lines 277-281 for the first thread: a step taken while the thread is
\* alive is a join that has timed out
join_title_thread ==
    /\ app_pc = "join_title"
    /\ join_warnings' = IF Alive(title_thread)
                        THEN join_warnings \cup {"TitleMonitorThread"}
                        ELSE join_warnings
    /\ app_pc' = "join_lyric"
    /\ UNCHANGED <<init_failure, stop_event, title_thread, lyric_thread,
                   title_exit, lyric_exit, driver, task_launched>>

\* lines 277-281 for the second thread
join_lyric_thread ==
    /\ app_pc = "join_lyric"
    /\ join_warnings' = IF Alive(lyric_thread)
                        THEN join_warnings \cup {"LyricMonitorThread"}
                        ELSE join_warnings
    /\ app_pc' = "close"
    /\ UNCHANGED <<init_failure, stop_event, title_thread, lyric_thread,
                   title_exit, lyric_exit, driver, task_launched>>

\* lines 282-285: song_info.close() sets driver to None (song_info.py,
\* lines 225-235)
close ==
    /\ app_pc = "close"
    /\ driver' = FALSE
    /\ app_pc' = "complete"
    /\ UNCHANGED <<init_failure, stop_event, title_thread, lyric_thread,
                   title_exit, lyric_exit, join_warnings, task_launched>>

\* monitor_song_title_and_trigger_analysis, line 161
title_check ==
    /\ title_thread = "check"
    /\ title_thread' = IF LoopGoesOn THEN "body" ELSE "stopped"
    /\ title_exit' = IF LoopGoesOn THEN title_exit ELSE "flag"
    /\ UNCHANGED <<app_pc, init_failure, stop_event, lyric_thread, lyric_exit,
                   join_warnings, driver, task_launched>>

\* lines 167-194: one iteration, to the wait or to the break
title_body(outcome) ==
    /\ title_thread = "body"
    /\ task_launched' = (task_launched \/ outcome = "task")
    /\ IF IsException(outcome) /\ TitleBreaks(outcome)
       THEN title_thread' = "stopped" /\ title_exit' = "exception"
       ELSE title_thread' = "wait" /\ title_exit' = title_exit
    /\ UNCHANGED <<app_pc, init_failure, stop_event, lyric_thread, lyric_exit,
                   join_warnings, driver>>

\* line 195: stop_event.wait(timeout=wait_time) returns
title_wait ==
    /\ title_thread = "wait"
    /\ title_thread' = "check"
    /\ UNCHANGED <<app_pc, init_failure, stop_event, lyric_thread, title_exit,
                   lyric_exit, join_warnings, driver, task_launched>>

\* monitor_current_lyric, song_info.py lines 169-171
lyric_enter ==
    /\ lyric_thread = "enter"
    /\ lyric_thread' = IF driver THEN "check" ELSE "stopped"
    /\ lyric_exit' = IF driver THEN lyric_exit ELSE "no driver"
    /\ UNCHANGED <<app_pc, init_failure, stop_event, title_thread, title_exit,
                   join_warnings, driver, task_launched>>

\* song_info.py, lines 178-180
lyric_check ==
    /\ lyric_thread = "check"
    /\ lyric_thread' = IF LoopGoesOn /\ driver THEN "body" ELSE "stopped"
    /\ lyric_exit' = IF ~LoopGoesOn THEN "flag"
                     ELSE IF ~driver THEN "no driver"
                     ELSE lyric_exit
    /\ UNCHANGED <<app_pc, init_failure, stop_event, title_thread, title_exit,
                   join_warnings, driver, task_launched>>

\* song_info.py, lines 181-216: one iteration, to the sleep or to the break
lyric_body(outcome) ==
    /\ lyric_thread = "body"
    /\ IF IsException(outcome) /\ LyricBreaks(outcome)
       THEN lyric_thread' = "stopped" /\ lyric_exit' = "exception"
       ELSE lyric_thread' = "sleep" /\ lyric_exit' = lyric_exit
    /\ UNCHANGED <<app_pc, init_failure, stop_event, title_thread, title_exit,
                   join_warnings, driver, task_launched>>

\* song_info.py, line 219: time.sleep(0.6) returns
lyric_sleep ==
    /\ lyric_thread = "sleep"
    /\ lyric_thread' = "check"
    /\ UNCHANGED <<app_pc, init_failure, stop_event, title_thread, title_exit,
                   lyric_exit, join_warnings, driver, task_launched>>

\* what no step of the application's control flow changes
AppFrame ==
    UNCHANGED <<storeVars, clientVars, parserVars, pipelineVars, retryVars,
                searchVars, handlerVars, auxVars>>

\* the main thread up to the finally clause
MainStep ==
    /\ \/ \E failure \in InitFailures : initialize(failure)
       \/ \E started \in BOOLEAN : start_title_thread(started)
       \/ \E started \in BOOLEAN : start_lyric_thread(started)
       \/ interrupt
    /\ AppFrame

\* the finally clause of the main thread, lines 273-285
ShutdownStep ==
    /\ \/ set_stop_event
       \/ join_title_thread
       \/ join_lyric_thread
       \/ close
    /\ AppFrame

\* TitleMonitorThread
TitleStep ==
    /\ \/ title_check
       \/ \E outcome \in TitleOutcomes : title_body(outcome)
       \/ title_wait
    /\ AppFrame

\* LyricMonitorThread
LyricStep ==
    /\ \/ lyric_enter
       \/ lyric_check
       \/ \E outcome \in LyricOutcomes : lyric_body(outcome)
       \/ lyric_sleep
    /\ AppFrame

AppNext == MainStep \/ ShutdownStep \/ TitleStep \/ LyricStep

SpecApp == AppInit /\ [][AppNext]_vars

\* C26: an exception raised in an iteration of the song-change loop or of
\* the line-change loop is caught and the loop goes to its next poll: as
\* long as the stop flag is not set, no loop ends because of an exception.
C26_LoopsSurviveExceptions ==
    /\ title_exit = "exception" => stop_event
    /\ lyric_exit = "exception" => stop_event

\* SpecApp with the scheduling the threads have: the operating system runs
\* each thread that can take a step, and the calls in progress return
SpecAppFair ==
    /\ SpecApp
    /\ WF_vars(ShutdownStep)
    /\ WF_vars(TitleStep)
    /\ WF_vars(LyricStep)

\* C27: once the stop flag is set, each polling loop leaves at its next
\* check of the flag, so each started loop stops in the end; the shutdown
\* that has begun always completes, and the only trace of a loop that has
\* not stopped within the join timeout is a warning.
C27_StopFlagEndsLoopsAndShutdown ==
    /\ [][(stop_event /\ title_thread = "check" /\ title_thread' # "check")
             => title_thread' = "stopped"]_vars
    /\ [][(stop_event /\ lyric_thread = "check" /\ lyric_thread' # "check")
             => lyric_thread' = "stopped"]_vars
    /\ (stop_event /\ title_thread # "unstarted") ~> (title_thread = "stopped")
    /\ (stop_event /\ lyric_thread # "unstarted") ~> (lyric_thread = "stopped")
    /\ (app_pc = "shutdown") ~> (app_pc = "complete")
    /\ [](app_pc = "complete" => stop_event /\ ~driver)

\* the shutdown has completed while both loops were still in an iteration:
\* both joins timed out and both warnings were given
C27_Witness ==
    /\ app_pc = "complete"
    /\ title_thread = "body"
    /\ lyric_thread = "body"
    /\ join_warnings = {"TitleMonitorThread", "LyricMonitorThread"}

\* C28 as stated: when initialization fails, run_visualizer_app returns, no
\* polling thread has been started and no analysis task has been launched.
C28_InitFailureReturns ==
    init_failure # "none" =>
       /\ app_pc = "returned"
       /\ title_thread = "unstarted" /\ lyric_thread = "unstarted"
       /\ ~task_launched

\* C28, amended: when initialization fails, run_visualizer_app is left
\* without a polling thread started or an analysis task launched: by
\* sys.exit(1) when GOOGLE_API_KEY is missing, by a return otherwise.
C28_InitFailureStartsNothing ==
    init_failure # "none" =>
       /\ app_pc = (IF init_failure = "credentials" THEN "exited" ELSE "returned")
       /\ title_thread = "unstarted" /\ lyric_thread = "unstarted"
       /\ ~task_launched
       /\ ~stop_event

\* the key is missing and the process has exited
C28_Witness ==
    /\ init_failure = "credentials"
    /\ app_pc = "exited"
    /\ title_thread = "unstarted" /\ lyric_thread = "unstarted"

(***************************************************************************)
(* SpecSection: parse_section on one candidate.  The candidate is drawn    *)
(* first: up to MaxSectionLines lines, each a LYRIC or SENTENCE line (with *)
(* a value or without, indented or not), a line whose prefix is not in     *)
(* upper case or not at its start, a line without prefix, or a blank line. *)
(***************************************************************************)
MaxSectionLines == 4

\* the prefixes in other cases, which parse_section does not match
LowerLyricPrefix == Lower(LyricPrefix)
MixedSentencePrefix == <<"S">> \o Lower(Tail(SentencePrefix))

SectionLineKinds ==
    {[prefix |-> "LYRIC", value |-> v, indent |-> FALSE] :
        v \in {<<>>, <<"a">>, <<"b">>}}
    \cup {[prefix |-> "SENTENCE", value |-> v, indent |-> FALSE] :
        v \in {<<>>, <<"s">>, <<"t">>}}
    \cup {[prefix |-> "LYRIC", value |-> <<"c">>, indent |-> TRUE],
          [prefix |-> "lyric", value |-> <<"d">>, indent |-> FALSE],
          [prefix |-> "Sentence", value |-> <<"u">>, indent |-> FALSE],
          [prefix |-> "-LYRIC", value |-> <<"e">>, indent |-> FALSE],
          [prefix |-> "", value |-> <<"x">>, indent |-> FALSE],
          [prefix |-> "", value |-> <<>>, indent |-> FALSE]}

PrefixText(prefix) ==
    CASE prefix = "LYRIC"    -> LyricPrefix
      [] prefix = "SENTENCE" -> SentencePrefix
      [] prefix = "lyric"    -> LowerLyricPrefix
      [] prefix = "Sentence" -> MixedSentencePrefix
      [] prefix = "-LYRIC"   -> <<"-">> \o LyricPrefix
      [] prefix = ""         -> <<>>

\* the text of one line: the prefix, a blank and the value, as the prompt asks
\* for it (lines 73-75); two blanks in front of an indented line
SectionLineText(kind) ==
    (IF kind.indent THEN <<" ", " ">> ELSE <<>>)
        \o PrefixText(kind.prefix)
        \o (IF kind.prefix # "" /\ kind.value # <<>> THEN <<" ">> ELSE <<>>)
        \o kind.value

\* the lines joined by newlines
RECURSIVE SectionText(_)
SectionText(lines) ==
    IF lines = <<>> THEN <<>>
    ELSE IF Len(lines) = 1 THEN SectionLineText(lines[1])
    ELSE SectionLineText(lines[1]) \o Newline \o SectionText(Tail(lines))

SectionInit ==
    /\ song_data = EmptyDict
    /\ current_song_title = None
    /\ lock = None
    /\ line = <<>>
    /\ call = NoCall
    /\ candidates = <<>>
    /\ chunk_stream = <<>>
    /\ buffer = <<>>
    /\ total_items_processed = 0
    /\ forwarded = <<>>
    /\ stream_pc = "returned"
    /\ cut_in_sentinel = FALSE
    /\ cut_in_prefix = FALSE
    /\ final_candidates = <<>>
    /\ section_lines \in
         UNION {[1 .. n -> SectionLineKinds] : n \in 0 .. MaxSectionLines}
    /\ parsed = <<>>
    /\ callback_raises = {}
    /\ PipelineIdle
    /\ RetryIdle
    /\ SearchIdle
    /\ HandlerIdle
    /\ AppIdle
    /\ AuxIdle

\* parse_section(section), lines 150-170, called on the candidate
parse_candidate ==
    /\ parsed = <<>>
    /\ callback_raises = {}
    /\ parsed' = <<parse_section(SectionText(section_lines))>>
    /\ UNCHANGED <<candidates, chunk_stream, buffer, total_items_processed,
                   forwarded, stream_pc, cut_in_sentinel, cut_in_prefix,
                   final_candidates, section_lines, callback_raises>>

SectionNext ==
    /\ parse_candidate
    /\ UNCHANGED <<storeVars, clientVars, pipelineVars, retryVars, searchVars,
                   handlerVars, appVars, auxVars>>

SpecSection == SectionInit /\ [][SectionNext]_vars

\* the last line of the candidate that has the prefix, 0 when none has it
LastLineWith(lines, prefix) ==
    IF \E i \in DOMAIN lines : lines[i].prefix = prefix
    THEN CHOOSE i \in DOMAIN lines :
            /\ lines[i].prefix = prefix
            /\ \A j \in DOMAIN lines : lines[j].prefix = prefix => j <= i
    ELSE 0

\* the value the candidate gives for the prefix: that of the last line that
\* has it, None when no line has it
ValueFor(lines, prefix) ==
    IF LastLineWith(lines, prefix) = 0 THEN None
    ELSE lines[LastLineWith(lines, prefix)].value

\* C29: parse_section takes the lyric from the last line that starts with
\* LYRIC: and the sentence from the last line that starts with SENTENCE:, in
\* upper case only and whatever the order of the lines; it returns the record
\* of the two values when both are non-empty and no record otherwise.
C29_PrefixesLastWinsBothNeeded ==
    parsed # <<>> =>
        LET lyric == ValueFor(section_lines, "LYRIC")
            sentence == ValueFor(section_lines, "SENTENCE")
        IN  IF Truthy(lyric) /\ Truthy(sentence)
            THEN parsed[1] = [lyric |-> lyric, sentence |-> sentence]
            ELSE parsed[1] = NoRecord

\* a candidate with its SENTENCE line first, two LYRIC lines of different
\* values and a lyric: line in lower case after them has become the record of
\* the second LYRIC line
C29_Witness ==
    /\ parsed # <<>>
    /\ Len(section_lines) = 4
    /\ section_lines[1].prefix = "SENTENCE"
    /\ section_lines[2].prefix = "LYRIC"
    /\ section_lines[3].prefix = "LYRIC"
    /\ section_lines[2].value # section_lines[3].value
    /\ Truthy(section_lines[2].value)
    /\ section_lines[4].prefix = "lyric"
    /\ parsed[1] = [lyric |-> section_lines[3].value,
                    sentence |-> section_lines[1].value]

(***************************************************************************)
(* SpecTail: one run of _process_stream over a reply whose last section    *)
(* has no sentinel.  The reply is drawn first: at most MaxTailSections     *)
(* sections closed by the sentinel, then up to MaxTailLines lines that     *)
(* nothing closes.  It arrives in fragments of any lengths.                *)
(***************************************************************************)
MaxTailSections == 1
MaxTailLines == 2

\* the lines after the last sentinel: their values differ from those of the
\* closed sections
TailLineKinds ==
    {kind \in SectionLineKinds : kind.value \notin {<<"a">>, <<"b">>}}

TailInit ==
    /\ song_data = DictSet(EmptyDict, SongA, EmptyDict)
    /\ current_song_title = SongA
    /\ lock = None
    /\ line = <<>>
    /\ call = NoCall
    /\ candidates \in
         UNION {[1 .. n -> {Complete, LyricOnly}] : n \in 0 .. MaxTailSections}
    /\ section_lines \in
         UNION {[1 .. n -> TailLineKinds] : n \in 0 .. MaxTailLines}
    /\ chunk_stream = ReplyText(candidates, 1) \o SectionText(section_lines)
    /\ buffer = <<>>
    /\ total_items_processed = 0
    /\ forwarded = <<>>
    /\ stream_pc = "reading"
    /\ cut_in_sentinel = FALSE
    /\ cut_in_prefix = FALSE
    /\ final_candidates = <<>>
    /\ parsed = <<>>
    /\ callback_raises = {}
    /\ PipelineIdle
    /\ RetryIdle
    /\ SearchIdle
    /\ HandlerIdle
    /\ AppIdle
    /\ AuxIdle

SpecTail == TailInit /\ [][ParseNext]_vars

\* one of the lines after the last sentinel holds LYRIC: or SENTENCE:
TailHoldsPrefix ==
    \E i \in DOMAIN section_lines :
        section_lines[i].prefix \in {"LYRIC", "SENTENCE", "-LYRIC"}

\* the record of the lines after the last sentinel, if they make one
TailRecords ==
    LET lyric == ValueFor(section_lines, "LYRIC")
        sentence == ValueFor(section_lines, "SENTENCE")
    IN  IF Truthy(lyric) /\ Truthy(sentence)
        THEN <<[lyric |-> lyric, sentence |-> sentence]>>
        ELSE <<>>

\* C30: nothing is parsed as a final candidate while the stream goes on; when
\* it has ended, the buffer holds the text after the last sentinel, that text
\* has been parsed once if it holds LYRIC: or SENTENCE: and not at all if it
\* does not, and what has been forwarded is the records of the closed
\* sections followed by the record of the leftover text, if it has a
\* non-empty lyric and a non-empty sentence, and by nothing otherwise.
C30_LeftoverParsedOnceIfPrefixed ==
    /\ stream_pc = "reading" => final_candidates = <<>>
    /\ stream_pc = "returned" =>
        /\ buffer = SectionText(section_lines)
        /\ final_candidates =
              IF TailHoldsPrefix THEN <<Strip(buffer)>> ELSE <<>>
        /\ forwarded =
              WellFormedRecords(candidates, Len(candidates)) \o TailRecords
        /\ total_items_processed = Len(forwarded)

\* a closed section and, after its sentinel, an indented LYRIC line and a
\* SENTENCE line have arrived in fragments, one of them cut inside a prefix;
\* the leftover text has been parsed once and its record forwarded last
C30_Witness ==
    /\ stream_pc = "returned"
    /\ candidates = <<Complete>>
    /\ cut_in_prefix
    /\ Len(final_candidates) = 1
    /\ section_lines = <<[prefix |-> "LYRIC", value |-> <<"c">>, indent |-> TRUE],
                         [prefix |-> "SENTENCE", value |-> <<"s">>,
                          indent |-> FALSE]>>
    /\ forwarded = <<RecordOf(1), [lyric |-> <<"c">>, sentence |-> <<"s">>]>>

(***************************************************************************)
(* SpecUpsert: one client starts songs and adds records whose lyrics are   *)
(* written in several ways: three texts that normalize to the same key     *)
(* and one that normalizes to another.  The call made before the last one  *)
(* is kept in previous_call.                                               *)
(***************************************************************************)
UpsertLines == {<<"a">>, <<"A">>, <<"a", "!">>, <<"'">>}

UpsertInit ==
    /\ StoreInit
    /\ line = <<>>
    /\ call = NoCall
    /\ ParserIdle
    /\ PipelineIdle
    /\ RetryIdle
    /\ SearchIdle
    /\ HandlerIdle
    /\ AppIdle
    /\ AuxIdle

UpsertNext ==
    /\ \/ \E song_title \in Titles : start_new_song(song_title)
       \/ \E l \in UpsertLines, s \in Sentences :
             add_analysis_line([lyric |-> l, sentence |-> s])
    /\ previous_call' = call
    /\ UNCHANGED <<parserVars, pipelineVars, retryVars, searchVars, handlerVars,
                   appVars, sourceVars, stateVars, historyVars>>

SpecUpsert == UpsertInit /\ [][UpsertNext]_vars

\* the two texts normalize to the same key
SameKey(lyric, other) == NormalizeLyric(lyric) = NormalizeLyric(other)

\* the call was an add_analysis_line that passed its checks
AcceptedAdd(c) ==
    /\ c.op = "add_analysis_line"
    /\ AddAccepted([lyric |-> c.lyric, sentence |-> c.sentence])

\* C31: an add_analysis_line that writes makes every lookup in the current
\* song with a text of the same key return its sentence, and changes the
\* result of no other lookup in any song; so of two records of the same key
\* added one after the other under the same song, the lookup by the earlier
\* one's lyric returns the later one's sentence.
C31_UpsertByNormalizedLyric ==
    /\ [](/\ AcceptedAdd(call)
          /\ AcceptedAdd(previous_call)
          /\ SameKey(call.lyric, previous_call.lyric)
          /\ current_song_title # None
          => FindAnalysis(song_data, current_song_title, previous_call.lyric)
                = call.sentence)
    /\ [][AcceptedAdd(call') /\ current_song_title # None =>
            \A t \in Titles, l \in Lines :
                FindAnalysis(song_data', t, l) =
                    IF t = current_song_title /\ SameKey(l, call'.lyric)
                    THEN call'.sentence
                    ELSE FindAnalysis(song_data, t, l)]_vars

\* two records whose lyrics are written differently and normalize to the same
\* key have been added to song A one after the other with different
\* sentences; the lookup by the first lyric returns the second sentence, and
\* the other key of the table has kept its own
C31_Witness ==
    /\ current_song_title = SongA
    /\ AcceptedAdd(call)
    /\ AcceptedAdd(previous_call)
    /\ call.lyric # previous_call.lyric
    /\ SameKey(call.lyric, previous_call.lyric)
    /\ call.sentence # previous_call.sentence
    /\ FindAnalysis(song_data, SongA, previous_call.lyric) = call.sentence
    /\ FindAnalysis(song_data, SongA, <<"'">>) = previous_call.sentence

(***************************************************************************)
(* SpecSource: the while loop of SongInfo.monitor_current_lyric, one       *)
(* iteration for each step.  What the browser shows at a poll is drawn     *)
(* from SourcePolls: a line of text, an empty text, a text that is only    *)
(* the music-note mark, no active element, an element whose inner div      *)
(* cannot be read, or an exception of find_elements; the callback returns  *)
(* or raises.  The iterations are recorded in source_polls.                *)
(***************************************************************************)
MaxPolls == 4

\* the mark that clean_lyrics removes (line 124), as one character
MusicNote == "note"
SourceTexts == {<<"x">>, <<"y">>}

\* what a poll can meet: `text' is inner_div.text (None when there is no
\* active element), `raised' the exception met, "inner" for one of line 189
SourcePolls ==
    {[text |-> t, raised |-> "", callback_raises |-> r] :
        t \in SourceTexts, r \in BOOLEAN}
    \cup {[text |-> t, raised |-> "", callback_raises |-> FALSE] :
        t \in {<<>>, <<" ">>, <<MusicNote>>, None}}
    \cup {[text |-> <<"x">>, raised |-> "inner", callback_raises |-> FALSE]}
    \cup {[text |-> None, raised |-> e, callback_raises |-> FALSE] :
        e \in {"StaleElementReferenceException", "NoSuchElementException",
               "error", "invalid session id"}}

\* clean_lyrics, lines 121-126, on a text of one line
clean_lyrics(lyrics) ==
    IF ~Truthy(lyrics) THEN <<>>
    ELSE Strip(DeleteChars(lyrics, {MusicNote}))

\* lines 184-190: current_active_lyric_text after the inner try
CurrentActiveLyricText(poll) ==
    IF poll.text = None \/ poll.raised = "inner" THEN None ELSE Strip(poll.text)

\* line 192: the condition under which the line is passed on
IsNewLine(current, last) == Truthy(current) /\ current # last

\* lines 204-216: last_active_lyric_text after the except clause that runs
LastAfterException(raised, last) ==
    IF raised \in {"NoSuchElementException", "error"} THEN None ELSE last

\* lines 192-196: the iteration for `poll' invokes new_lyric_callback
LinePassed(poll) ==
    /\ poll.raised \in {"", "inner"}
    /\ IsNewLine(CurrentActiveLyricText(poll), last_active_lyric_text)
    /\ clean_lyrics(CurrentActiveLyricText(poll)) # <<>>

\* lines 179-219: one iteration of the loop; callback_outcome is what
\* new_lyric_callback does if it is invoked
poll_lyric(poll, callback_outcome) ==
    /\ source_pc = "polling"
    /\ Len(source_polls) < MaxPolls
    /\ LET current == CurrentActiveLyricText(poll)
           failed == poll.raised \notin {"", "inner"}
           cleaned_lyric == clean_lyrics(current)
           passed == LinePassed(poll)
       IN  /\ last_active_lyric_text' =
                IF failed
                THEN LastAfterException(poll.raised, last_active_lyric_text)
                ELSE IF IsNewLine(current, last_active_lyric_text)
                THEN (IF cleaned_lyric # <<>> THEN current
                      ELSE last_active_lyric_text)
                ELSE IF ~Truthy(current) /\ last_active_lyric_text # None
                THEN None
                ELSE last_active_lyric_text
           /\ source_pc' =
                IF poll.raised = "invalid session id" THEN "stopped"
                ELSE "polling"
           /\ source_polls' =
                Append(source_polls,
                       [seen |-> IF failed THEN None ELSE current,
                        raised |-> poll.raised,
                        called |-> passed,
                        delivered |-> IF passed THEN cleaned_lyric ELSE None,
                        outcome |-> IF passed THEN callback_outcome ELSE None])

SourceInit ==
    /\ StoreInit
    /\ line = <<>>
    /\ call = NoCall
    /\ ParserIdle
    /\ PipelineIdle
    /\ RetryIdle
    /\ SearchIdle
    /\ HandlerIdle
    /\ AppIdle
    /\ AuxIdle

SourceNext ==
    /\ \E poll \in SourcePolls :
          poll_lyric(poll, IF poll.callback_raises THEN <<"raised">>
                           ELSE <<"returned">>)
    /\ UNCHANGED <<storeVars, clientVars, parserVars, pipelineVars, retryVars,
                   searchVars, handlerVars, appVars, previous_call, stateVars,
                   historyVars>>

SpecSource == SourceInit /\ [][SourceNext]_vars

\* the iteration saw a line of text
SawLine(p) == p.raised = "" /\ Truthy(p.seen)
\* the iteration ran to its end and saw no line of text
SawNoLine(p) == p.raised \in {"", "inner"} /\ ~Truthy(p.seen)

\* C32: the callback is invoked only in an iteration that saw a non-empty
\* text other than the one kept from the iteration before; an iteration that
\* sees the text of the iteration before it does not invoke it; and it is
\* invoked twice for the same text, with no other invocation in between,
\* only if an iteration in between saw another line or no line.
C32_DuplicateLinesSuppressed ==
    /\ \A j \in DOMAIN source_polls :
          source_polls[j].called => SawLine(source_polls[j])
    /\ \A j \in DOMAIN source_polls :
          /\ j > 1
          /\ SawLine(source_polls[j - 1])
          /\ source_polls[j].seen = source_polls[j - 1].seen
          => ~source_polls[j].called
    /\ \A i, j \in DOMAIN source_polls :
          /\ i < j
          /\ source_polls[i].called
          /\ source_polls[j].called
          /\ source_polls[i].seen = source_polls[j].seen
          => \E k \in (i + 1) .. (j - 1) :
                \/ SawNoLine(source_polls[k])
                \/ /\ SawLine(source_polls[k])
                   /\ source_polls[k].seen # source_polls[i].seen

(***************************************************************************)
(* SpecState: one thread calls SongState.update with the three fields that *)
(* src/test.py sets together, another builds payloads with to_dict (as     *)
(* send_to_td does).  The n-th update gives each of its fields the value   *)
(* n; the constructor gave them 0.  Python evaluates the dict display of   *)
(* to_dict one attribute after the other, and setattr is one step.         *)
(***************************************************************************)
MaxUpdates == 2

\* to_dict, lines 31-36: the attributes in the order they are read
ToDictOrder ==
    <<"song_title", "original_lyric", "analyzed_lyric", "lyric_image_path">>

\* test.py, lines 136-140: the keyword arguments of the update call
UpdateKwargs == <<"original_lyric", "analyzed_lyric", "lyric_image_path">>

\* update, line 40: the lock is taken
update_acquire ==
    /\ update_kwargs = <<>>
    /\ update_count < MaxUpdates
    /\ state_lock = None
    /\ state_lock' = "updater"
    /\ update_kwargs' = UpdateKwargs
    /\ update_count' = update_count + 1
    /\ UNCHANGED <<song_state, payload>>

\* update, lines 41-43: one setattr; the lock is released after the last one
update_setattr ==
    /\ update_kwargs # <<>>
    /\ song_state' = [song_state EXCEPT ![Head(update_kwargs)] = update_count]
    /\ update_kwargs' = Tail(update_kwargs)
    /\ state_lock' = IF Tail(update_kwargs) = <<>> THEN None ELSE state_lock
    /\ UNCHANGED <<update_count, payload>>

\* to_dict, lines 31-36: the next attribute is read; no lock is taken
to_dict_read ==
    /\ Len(payload) < Len(ToDictOrder)
    /\ payload' = Append(payload, song_state[ToDictOrder[Len(payload) + 1]])
    /\ UNCHANGED <<song_state, state_lock, update_kwargs, update_count>>

\* send_to_td, lines 47-53: the payload is posted and the next one begun
send_to_td ==
    /\ Len(payload) = Len(ToDictOrder)
    /\ payload' = <<>>
    /\ UNCHANGED <<song_state, state_lock, update_kwargs, update_count>>

StateInit ==
    /\ StoreInit
    /\ line = <<>>
    /\ call = NoCall
    /\ ParserIdle
    /\ PipelineIdle
    /\ RetryIdle
    /\ SearchIdle
    /\ HandlerIdle
    /\ AppIdle
    /\ AuxIdle

StateNext ==
    /\ \/ update_acquire
       \/ update_setattr
       \/ to_dict_read
       \/ send_to_td
    /\ UNCHANGED <<storeVars, clientVars, parserVars, pipelineVars, retryVars,
                   searchVars, handlerVars, appVars, previous_call, sourceVars,
                   historyVars>>

SpecState == StateInit /\ [][StateNext]_vars

\* the position in the payload of a field that update sets
UpdatedPositions ==
    {i \in DOMAIN ToDictOrder :
        \E k \in DOMAIN UpdateKwargs : UpdateKwargs[k] = ToDictOrder[i]}

\* C33: in a finished payload the fields that each update call sets together
\* all come from the same call: none is from before an update of which
\* another is from after.
C33_PayloadNeverTorn ==
    Len(payload) = Len(ToDictOrder) =>
        \A i, j \in UpdatedPositions : payload[i] = payload[j]


(***************************************************************************)
(* SpecCallback: the analysis task of SpecRetry with a storage callback    *)
(* that raises on some of its calls.  callback_raises holds the ranks,     *)
(* within one call of _process_stream, of the calls that raise; a call     *)
(* that raises has stored nothing.                                         *)
(***************************************************************************)

MaxCallbacks == 2

CallbackInit ==
    /\ song_data = DictSet(EmptyDict, SongA, EmptyDict)
    /\ current_song_title = SongA
    /\ lock = None
    /\ line = <<>>
    /\ call = NoCall
    /\ candidates \in RetryReplies
    /\ chunk_stream = <<>>
    /\ buffer = <<>>
    /\ total_items_processed = 0
    /\ forwarded = <<>>
    /\ stream_pc = "returned"
    /\ cut_in_sentinel = FALSE
    /\ cut_in_prefix = FALSE
    /\ final_candidates = <<>>
    /\ section_lines = <<>>
    /\ parsed = <<>>
    /\ callback_raises \in SUBSET (1..MaxCallbacks)
    /\ PipelineIdle
    /\ cleaned_lyrics = <<"x">>
    /\ client = TRUE
    /\ analysis_status = ""
    /\ retry_pc = "idle"
    /\ attempt = 0
    /\ current_delay = 0
    /\ sleeps = <<>>
    /\ requests = 0
    /\ errors = <<>>
    /\ SearchIdle
    /\ HandlerIdle
    /\ AppIdle
    /\ AuxIdle

SpecCallback == CallbackInit /\ [][RetryNext]_vars

\* C36: an exception raised by the storage callback for a record is
\* contained.  While a stream is read and when it has ended, every request
\* made is the first one or follows an exception of the service (none follows
\* an exception of the callback), and every record passed to the callback is
\* counted in total_items_processed; when _process_stream has returned, all
\* the well-formed records of the stream have been passed to the callback,
\* those after a raising call included, and the records whose call returned
\* are in the store.
C36_CallbackExceptionContained ==
    /\ retry_pc \in {"stream", "Success"} =>
          /\ requests = 1 + Len(errors)
          /\ total_items_processed = Len(forwarded)
    /\ retry_pc = "Success" =>
          /\ forwarded = WellFormedRecords(candidates, Len(candidates))
          /\ \A i \in 1..Len(forwarded) :
                FindAnalysis(song_data, current_song_title, forwarded[i].lyric)
                    = IF i \in callback_raises THEN None
                      ELSE forwarded[i].sentence

\* the callback raised for the first of two records of a stream, no request
\* failed, and the second record was passed on, stored and counted
C36_Witness ==
    /\ retry_pc = "Success"
    /\ callback_raises = {1}
    /\ errors = <<>>
    /\ requests = 1
    /\ forwarded = <<RecordOf(1), RecordOf(2)>>
    /\ total_items_processed = 2
    /\ FindAnalysis(song_data, current_song_title, RecordOf(1).lyric) = None
    /\ FindAnalysis(song_data, current_song_title, RecordOf(2).lyric)
          = RecordOf(2).sentence


(***************************************************************************)
(* SpecPending: the loop of monitor_current_lyric with handle_new_lyric    *)
(* of main.py as its callback (main.py, line 255), while the analysis      *)
(* task writes the tag of the line <<"x">> at some time.  One song is      *)
(* current, its table is empty at first, and the index holds one image.    *)
(***************************************************************************)

\* what an iteration meets here: the line x, the line y, no active element,
\* an exception that is only passed over, an exception that is logged
PendingPolls ==
    {p \in SourcePolls :
        /\ ~p.callback_raises
        /\ p.text \in {<<"x">>, <<"y">>, None}
        /\ p.raised \in {"", "StaleElementReferenceException", "error"}}

PendingOracles == {<<1, 0>>, None}

PendingInit ==
    /\ song_data = DictSet(EmptyDict, SongA, EmptyDict)
    /\ current_song_title = SongA
    /\ lock = None
    /\ line = <<"x">>
    /\ call = NoCall
    /\ ParserIdle
    /\ PipelineIdle
    /\ RetryIdle
    /\ image_embeddings = <<(<<1, 0>>)>>
    /\ argsort_ties = <<1>>
    /\ image_paths = <<1>>
    /\ text_embedding = None
    /\ top_k = 0
    /\ results = <<>>
    /\ search_returned = "not called"
    /\ first_search = NoSearch
    /\ HandlerIdle
    /\ AppIdle
    /\ AuxIdle

\* song_info.py, lines 179-219, with main.py, lines 88-147: one iteration of
\* the loop, in which handle_new_lyric runs if the line is passed on
poll_and_handle(poll, oracle) ==
    /\ IF LinePassed(poll)
       THEN handle_lyric_event(clean_lyrics(CurrentActiveLyricText(poll)), oracle)
       ELSE UNCHANGED <<storeVars, clientVars, pipelineVars, searchVars,
                        handlerVars, appVars>>
    /\ poll_lyric(poll, handler_outcomes')
    /\ UNCHANGED <<previous_call, stateVars, historyVars>>

\* llm_analysis.py, line 229: the analysis task passes the record of the
\* line to storage.add_analysis_line
tag_written ==
    /\ add_analysis_line([lyric |-> line, sentence |-> <<"s">>])
    /\ UNCHANGED <<pipelineVars, searchVars, handlerVars, appVars, auxVars>>

PendingNext ==
    /\ \/ \E poll \in PendingPolls, oracle \in PendingOracles :
             poll_and_handle(poll, oracle)
       \/ tag_written
    /\ UNCHANGED <<parserVars, retryVars>>

SpecPending == PendingInit /\ [][PendingNext]_vars

\* C38: when handle_new_lyric has surfaced 'pending' for a line and a later
\* run of it displays an image for the same line, the source has seen
\* another line, or no line, in an iteration between the two.
C38_PendingNotResolvedAgain ==
    \A i, j \in DOMAIN source_polls :
        /\ i < j
        /\ source_polls[i].outcome = <<"pending">>
        /\ source_polls[j].outcome = <<"displayed">>
        /\ source_polls[i].delivered = source_polls[j].delivered
        => \E k \in (i + 1) .. (j - 1) :
              \/ SawNoLine(source_polls[k])
              \/ /\ SawLine(source_polls[k])
                 /\ source_polls[k].seen # source_polls[i].seen

=============================================================================
